---- MODULE Spec2Model ----
(***************************************************************************)
(* Inventory ledger of traider: stock_movements / stock_balances kept       *)
(* consistent by create_movement, create_movements_batch, cancel_movement   *)
(* and the batch creation of fabric variants (src/src/traider/repo.py,      *)
(* src/src/traider/db.py, src/src/traider/routes/movements.py).             *)
(*                                                                          *)
(* The storage engine is PostgreSQL at READ COMMITTED, one connection per   *)
(* call (db.get_conn).  A connection's transaction is modelled by its       *)
(* write set; a row written by an open transaction is locked until that     *)
(* transaction commits, rolls back or aborts on an error.                   *)
(***************************************************************************)
EXTENDS Integers, Sequences, FiniteSets, TLC

\* ------------------------------------------------------------------------
\* Bounds
\* ------------------------------------------------------------------------
NumProcs == 2
MaxCalls == 2
MaxBatch == 2
NumVariants == 3
RaceProcs == 3
MaxVariantCalls == 2
MaxInitCalls == 2
MaxSeedRows == 2
MaxRequests == 3

Procs == 1..NumProcs

\* Variant ids; a variant is one (fabric_code, color_code) pair.
VariantIds == 1..NumVariants

\* The variants that exist after the master data was loaded: all but the
\* last id, which a call can name but which no row of fabric_variants has.
InitialVariants == 1..(NumVariants - 1)

\* Optional values: NULL / None is the empty tuple, a value v is <<v>>.
NULL == <<>>
Some(v) == <<v>>
IsNull(x) == x = NULL
Val(x) == x[1]

Qtys == {-1, 2}
RollCounts == {NULL, Some(1)}
Uoms == {"m", "yd"}
MovementTypes == {"RECEIPT"}

\* db.py DDL: CHECK (original_uom IN ('m','roll'))
ValidUoms == {"m", "roll"}

\* db.py DDL: CHECK (movement_type IN ('RECEIPT','ISSUE','ADJUST'))
AllMovementTypes == {"RECEIPT", "ISSUE", "ADJUST"}

\* Mutant of RowAccepted: the storage layer checks the unit only.
RowAcceptedUnitOnly(movement_type, uom) == uom \in ValidUoms

\* The two CHECK constraints of stock_movements, evaluated by the INSERT.
RowAccepted(movement_type, uom) ==
    movement_type \in AllMovementTypes /\ uom \in ValidUoms

\* The fabric codes a call can name, and the one fabric that exists; every
\* variant id is a colour of that fabric.
FabricCodes == {"F1", "F0"}
fabrics == {"F1"}

\* created_at::date of a movement row: the day the cleanup migration names
\* and the day of the running system (DEFAULT now()).
CorruptedDate == "2026-01-15"
Now == "2026-01-16"
Dates == {CorruptedDate, Now}

\* The names of the one-time data migrations of db.py.
SanitizeMigration == "sanitize_codes_cleanup_v1"
TargetedMigration == "targeted_color_fixes_v1"
AllMigrations == {SanitizeMigration, TargetedMigration}

\* ------------------------------------------------------------------------
\* State
\* ------------------------------------------------------------------------
VARIABLES
    fabric_variants,          \* committed rows of fabric_variants (ids)
    stock_movements,          \* committed rows of stock_movements
    stock_balances,           \* committed rows of stock_balances
    migrations,               \* committed rows of migrations (names)
    stock_movements_id_seq,   \* last value of the BIGSERIAL sequence
    tx,                       \* per connection: the open transaction
    pc,                       \* per caller: position in the running call
    frame,                    \* per caller: arguments and locals of the call
    calls,                    \* number of calls started so far
    cancel_log,               \* movement ids of the cancel calls that
                              \* returned success, in order of return
    last_create,              \* the last committed create_movement and the
                              \* balance it found, while nothing else wrote
                              \* that item's balance
    _sessions,                \* routes/mcp.py: session id -> registered session
    _session_lock,            \* the asyncio.Lock and the tasks waiting for it
    session,                  \* the MCPSession objects created so far
    request,                  \* the POST requests to the MCP endpoint
    cleanup_task              \* per session: its done callback and the
                              \* _cleanup_session task the callback creates

\* The session table of the MCP endpoint and the tasks of its event loop.
mcpVars == <<_sessions, _session_lock, session, request, cleanup_task>>

vars == <<fabric_variants, stock_movements, stock_balances, migrations,
          stock_movements_id_seq, tx, pc, frame, calls, cancel_log,
          last_create, mcpVars>>

dbVars == <<fabric_variants, stock_movements, stock_balances, migrations>>

ledgerVars == <<dbVars, stock_movements_id_seq, tx, pc, frame, calls,
                cancel_log, last_create>>

\* ------------------------------------------------------------------------
\* Rows and relational helpers
\* ------------------------------------------------------------------------
RollsOf(m) == IF IsNull(m.roll_count) THEN 0 ELSE Val(m.roll_count)

\* SUM(delta_qty_m) and SUM(COALESCE(roll_count, 0)) over a set of rows.
RECURSIVE SumDelta(_)
SumDelta(S) ==
    IF S = {} THEN 0
    ELSE LET x == CHOOSE y \in S : TRUE
         IN x.delta_qty_m + SumDelta(S \ {x})

RECURSIVE SumRolls(_)
SumRolls(S) ==
    IF S = {} THEN 0
    ELSE LET x == CHOOSE y \in S : TRUE
         IN RollsOf(x) + SumRolls(S \ {x})

\* Rows of a table with a given key.
MovementsOf(T, v) == {m \in T : m.variant_id = v}
ActiveMovementsOf(T, v) == {m \in T : m.variant_id = v /\ ~m.is_cancelled}
BalanceRows(T, v) == {b \in T : b.variant_id = v}
MovementRows(T, id) == {m \in T : m.id = id}

\* COALESCE(sb.on_hand_m, 0) over a LEFT JOIN: a missing row reads as 0.
OnHandM(T, v) ==
    IF BalanceRows(T, v) = {} THEN 0
    ELSE (CHOOSE b \in BalanceRows(T, v) : TRUE).on_hand_m

OnHandRolls(T, v) ==
    IF BalanceRows(T, v) = {} THEN 0
    ELSE (CHOOSE b \in BalanceRows(T, v) : TRUE).on_hand_rolls

\* ------------------------------------------------------------------------
\* Transactions
\* ------------------------------------------------------------------------
NoTx == [status |-> "IDLE", ins |-> {}, upd |-> {}, bal |-> {}, var |-> {}]

\* Row locks: a balance row is locked by the transaction that wrote it, a
\* movement row by the transaction that flagged it.
BalLockHolders(v) == {q \in DOMAIN tx : BalanceRows(tx[q].bal, v) # {}}
MovLockHolders(id) == {q \in DOMAIN tx : MovementRows(tx[q].upd, id) # {}}

\* Mutant of BalLockFree: the balance is read and written back without the
\* row lock of a single upsert statement.
BalLockFreeUnlocked(p, v) == TRUE

BalLockFree(p, v) == BalLockHolders(v) \subseteq {p}

\* Mutant of MovLockFree: the flag is checked and set without the row lock.
MovLockFreeUnlocked(p, id) == TRUE

MovLockFree(p, id) == MovLockHolders(id) \subseteq {p}

\* What a statement of connection p sees: the committed rows overlaid by the
\* rows p's own transaction wrote.
VisibleBalances(p) ==
    {b \in stock_balances : BalanceRows(tx[p].bal, b.variant_id) = {}}
        \cup tx[p].bal

VisibleMovements(p) ==
    {m \in stock_movements : MovementRows(tx[p].upd, m.id) = {}}
        \cup tx[p].upd \cup tx[p].ins

\* Mutant of CommitBalances: the commit keeps only the rows it wrote.
CommitBalancesOnly(t) == t.bal

\* COMMIT: the write set replaces the committed versions of its rows.
CommitBalances(t) ==
    {b \in stock_balances : BalanceRows(t.bal, b.variant_id) = {}} \cup t.bal

\* Mutant of CommitMovements: the commit adds the written row versions
\* beside the versions they replace.
CommitMovementsAppend(t) == stock_movements \cup t.upd \cup t.ins

CommitMovements(t) ==
    {m \in stock_movements : MovementRows(t.upd, m.id) = {}}
        \cup t.upd \cup t.ins

\* ------------------------------------------------------------------------
\* Frames
\* ------------------------------------------------------------------------
NoResult == [kind |-> "pending"]

NoFrame ==
    [op |-> "none", variant_id |-> 0, movement_type |-> "RECEIPT",
     qty |-> 0, uom |-> "m",
     roll_count |-> NULL, items |-> <<>>, n |-> 0, i |-> 0, movement_id |-> 0,
     previous_balance |-> 0, on_hand_m_after |-> 0,
     fabric_code |-> "", created |-> <<>>,
     processed |-> <<>>, failed |-> <<>>, raised |-> FALSE,
     was_active |-> FALSE, was_cancelled |-> FALSE,
     via |-> "repo", sent |-> <<>>,
     result |-> NoResult]

\* The MCP endpoint after the import of routes/mcp.py: _sessions = {}, the
\* lock free, no request yet.  A session object is named by the request
\* that creates it.
Requests == 1..MaxRequests

\* A session id a client makes up; uuid.uuid4() of a request is an id that
\* no client made up and no other request is given.
ClientIds == {1}
Uuid4(r) == Cardinality(ClientIds) + r
SessionIds == ClientIds \cup {Uuid4(r) : r \in Requests}

NoSession == 0

McpInit ==
    /\ _sessions = [id \in SessionIds |-> NoSession]
    /\ _session_lock = [locked |-> FALSE, waiters |-> <<>>]
    /\ session = [s \in Requests |-> [session_id |-> 0, server_task |-> "none"]]
    /\ request = [r \in Requests |->
                    [pc |-> "idle", header |-> 0, session_id |-> 0,
                     session |-> NoSession]]
    /\ cleanup_task = [s \in Requests |-> [pc |-> "none", popped |-> NoSession]]

\* The database outlives the server process.  The model starts from the
\* ledger one earlier receipt on variant 1 (2 m, 1 roll) left behind: variant
\* 1 has a movement and a balance row, the other variants have neither.
SeedMovements ==
    {[id |-> 1, variant_id |-> 1, movement_type |-> "RECEIPT",
      delta_qty_m |-> 2, original_qty |-> 2, original_uom |-> "m",
      roll_count |-> Some(1), created_at |-> Now,
      is_cancelled |-> FALSE, cancelled_at |-> NULL]}

SeedBalances == {[variant_id |-> 1, on_hand_m |-> 2, on_hand_rolls |-> 1]}

Init ==
    /\ fabric_variants = InitialVariants
    /\ stock_movements = SeedMovements
    /\ stock_balances = SeedBalances
    /\ migrations = AllMigrations
    /\ stock_movements_id_seq = 1
    /\ tx = [p \in Procs |-> NoTx]
    /\ pc = [p \in Procs |-> "idle"]
    /\ frame = [p \in Procs |-> NoFrame]
    /\ calls = 0
    /\ cancel_log = <<>>
    /\ last_create = NULL
    /\ McpInit

\* ------------------------------------------------------------------------
\* create_movement (repo.py)
\* ------------------------------------------------------------------------

\* Mutant of LookupVariant: the reference is used without checking that the
\* lookup found a row.
LookupVariantNoCheck(ref) == Some(ref)

\* SELECT v.id FROM fabric_variants v JOIN fabrics f ... WHERE codes match
LookupVariant(ref) == IF ref \in fabric_variants THEN Some(ref) ELSE NULL

\* A caller starts a call when it is not inside one; a finished call's
\* result stays in its frame until the caller's next call.
CanCall(p, max_calls) == pc[p] \in {"idle", "ret"} /\ calls < max_calls

\* Mutant of MovementRow: the ledger stores the quantity with its sign
\* flipped.
MovementRowNegated(id, variant_id, movement_type, qty, uom, roll_count) ==
    [id |-> id, variant_id |-> variant_id, movement_type |-> movement_type,
     delta_qty_m |-> 0 - qty, original_qty |-> qty, original_uom |-> uom,
     roll_count |-> roll_count, created_at |-> Now,
     is_cancelled |-> FALSE, cancelled_at |-> NULL]

\* The row of INSERT INTO stock_movements ... RETURNING id.
MovementRow(id, variant_id, movement_type, qty, uom, roll_count) ==
    [id |-> id, variant_id |-> variant_id, movement_type |-> movement_type,
     delta_qty_m |-> qty, original_qty |-> qty, original_uom |-> uom,
     roll_count |-> roll_count, created_at |-> Now,
     is_cancelled |-> FALSE, cancelled_at |-> NULL]

\* Mutant of DeltaRolls: the roll count never reaches the balance.
DeltaRollsDropped(roll_count) == NULL

\* delta_rolls = Decimal(str(roll_count)) if roll_count is not None else None
DeltaRolls(roll_count) == roll_count

\* Mutant of UpsertBalance: the conflict branch sets on_hand_m to the new
\* delta instead of adding it.
UpsertBalanceOverwrite(T, v, delta_qty_m, delta_rolls) ==
    [variant_id |-> v, on_hand_m |-> delta_qty_m,
     on_hand_rolls |-> IF IsNull(delta_rolls) THEN OnHandRolls(T, v)
                       ELSE OnHandRolls(T, v) + Val(delta_rolls)]

\* INSERT INTO stock_balances ... ON CONFLICT (variant_id) DO UPDATE: the row
\* version the statement writes, given the rows T it finds.
UpsertBalance(T, v, delta_qty_m, delta_rolls) ==
    IF BalanceRows(T, v) = {}
    THEN [variant_id |-> v, on_hand_m |-> delta_qty_m,
          on_hand_rolls |-> IF IsNull(delta_rolls) THEN 0 ELSE Val(delta_rolls)]
    ELSE LET old == CHOOSE b \in BalanceRows(T, v) : TRUE
         IN [variant_id |-> v,
             on_hand_m |-> old.on_hand_m + delta_qty_m,
             on_hand_rolls |-> IF ~IsNull(delta_rolls)
                               THEN old.on_hand_rolls + Val(delta_rolls)
                               ELSE old.on_hand_rolls]

\* The write set after the upsert of p's transaction wrote row.
WithBalance(t, row) ==
    [t EXCEPT !.bal = {b \in t.bal : b.variant_id # row.variant_id} \cup {row}]

\* db.get_conn's finally clause returns the connection to the pool, which
\* rolls back a transaction left open: the committed rows stay as they were.
\* Mutant of PutConnMovements: the movement insert was committed on its own.
PutConnMovementsKeep(t) == CommitMovements(t)

PutConnMovements(t) == stock_movements
PutConnBalances(t) == stock_balances

\* Bookkeeping of last_create when the transaction t commits: it is dropped
\* when t writes the balance of its item other than by cancelling it.
TrackCommit(t) ==
    IF IsNull(last_create) THEN last_create
    ELSE IF /\ BalanceRows(t.bal, Val(last_create).variant_id) # {}
            /\ ~(t.ins = {} /\ {m.id : m \in t.upd} = {Val(last_create).id})
         THEN NULL
         ELSE last_create

create_movement_call(p, In) ==
    /\ CanCall(p, In.max_calls)
    /\ \E v \in In.variants, q \in In.qtys, u \in In.uoms, r \in In.rolls,
          ty \in In.types :
          frame' = [frame EXCEPT ![p] =
                      [NoFrame EXCEPT !.op = "create_movement",
                                      !.variant_id = v, !.qty = q, !.uom = u,
                                      !.roll_count = r, !.movement_type = ty]]
    /\ pc' = [pc EXCEPT ![p] = "cm_check"]
    /\ calls' = calls + 1
    /\ UNCHANGED <<dbVars, stock_movements_id_seq, tx, cancel_log, last_create>>
    /\ UNCHANGED mcpVars

\* create_movement_by_codes: the variant is looked up by its codes on a
\* connection of its own; None without a row, else create_movement is called
\* with the id found.
create_movement_by_codes_call(p, In) ==
    /\ CanCall(p, In.max_calls)
    /\ \E v \in In.variants, q \in In.qtys, u \in In.uoms, r \in In.rolls,
          ty \in In.types :
          frame' = [frame EXCEPT ![p] =
                      [NoFrame EXCEPT !.op = "create_movement_by_codes",
                                      !.variant_id = v, !.qty = q, !.uom = u,
                                      !.roll_count = r, !.movement_type = ty]]
    /\ pc' = [pc EXCEPT ![p] = "cbc_lookup"]
    /\ calls' = calls + 1
    /\ UNCHANGED <<dbVars, stock_movements_id_seq, tx, cancel_log, last_create>>
    /\ UNCHANGED mcpVars

cbc_lookup(p) ==
    /\ pc[p] = "cbc_lookup"
    /\ IF IsNull(LookupVariant(frame[p].variant_id))
       THEN /\ pc' = [pc EXCEPT ![p] = "ret"]
            /\ frame' = [frame EXCEPT ![p].result = [kind |-> "None"]]
       ELSE /\ pc' = [pc EXCEPT ![p] = "cm_check"]
            /\ frame' = [frame EXCEPT
                           ![p].op = "create_movement",
                           ![p].variant_id = Val(LookupVariant(frame[p].variant_id))]
    /\ UNCHANGED <<dbVars, stock_movements_id_seq, tx, calls, cancel_log,
                   last_create>>
    /\ UNCHANGED mcpVars

\* Mutant of cm_check: the movement is written without looking the variant
\* up first.
cm_check_skipped(p) ==
    /\ pc[p] = "cm_check"
    /\ tx' = [tx EXCEPT ![p].status = "INTRANS"]
    /\ pc' = [pc EXCEPT ![p] = "cm_insert"]
    /\ UNCHANGED <<dbVars, stock_movements_id_seq, frame, calls, cancel_log,
                   last_create>>
    /\ UNCHANGED mcpVars

\* SELECT id FROM fabric_variants WHERE id = %s; return None if no row.
cm_check(p) ==
    /\ pc[p] = "cm_check"
    /\ IF frame[p].variant_id \in fabric_variants
       THEN /\ tx' = [tx EXCEPT ![p].status = "INTRANS"]
            /\ pc' = [pc EXCEPT ![p] = "cm_insert"]
            /\ UNCHANGED frame
       ELSE /\ tx' = [tx EXCEPT ![p] = NoTx]
            /\ pc' = [pc EXCEPT ![p] = "ret"]
            /\ frame' = [frame EXCEPT ![p].result = [kind |-> "None"]]
    /\ UNCHANGED <<dbVars, stock_movements_id_seq, calls, cancel_log, last_create>>
    /\ UNCHANGED mcpVars

\* Mutant of cm_insert: the sign of the stored quantity follows the movement
\* type, an ISSUE being stored as a decrease whatever the caller passed.
cm_insert_signed_by_type(p) ==
    /\ pc[p] = "cm_insert"
    /\ stock_movements_id_seq' = stock_movements_id_seq + 1
    /\ tx' = [tx EXCEPT ![p].ins = @ \cup
                {MovementRow(stock_movements_id_seq + 1,
                             frame[p].variant_id, frame[p].movement_type,
                             IF frame[p].movement_type = "ISSUE" /\ frame[p].qty > 0
                             THEN 0 - frame[p].qty ELSE frame[p].qty,
                             frame[p].uom, frame[p].roll_count)}]
    /\ frame' = [frame EXCEPT ![p].movement_id = stock_movements_id_seq + 1]
    /\ pc' = [pc EXCEPT ![p] = "cm_upsert"]
    /\ UNCHANGED <<dbVars, calls, cancel_log, last_create>>
    /\ UNCHANGED mcpVars

\* INSERT INTO stock_movements; a type or unit outside the CHECK lists is
\* rejected and the exception leaves create_movement.
cm_insert(p) ==
    /\ pc[p] = "cm_insert"
    /\ stock_movements_id_seq' = stock_movements_id_seq + 1
    /\ IF RowAccepted(frame[p].movement_type, frame[p].uom)
       THEN /\ tx' = [tx EXCEPT ![p].ins = @ \cup
                        {MovementRow(stock_movements_id_seq + 1,
                                     frame[p].variant_id, frame[p].movement_type,
                                     frame[p].qty, frame[p].uom,
                                     frame[p].roll_count)}]
            /\ frame' = [frame EXCEPT ![p].movement_id = stock_movements_id_seq + 1]
            /\ pc' = [pc EXCEPT ![p] = "cm_upsert"]
            /\ UNCHANGED dbVars
       ELSE /\ stock_movements' = PutConnMovements(tx[p])
            /\ stock_balances' = PutConnBalances(tx[p])
            /\ tx' = [tx EXCEPT ![p] = NoTx]
            /\ frame' = [frame EXCEPT ![p].result = [kind |-> "raised"],
                                      ![p].raised = TRUE]
            /\ pc' = [pc EXCEPT ![p] = "ret"]
            /\ UNCHANGED <<fabric_variants, migrations>>
    /\ UNCHANGED <<calls, cancel_log, last_create>>
    /\ UNCHANGED mcpVars

\* Mutant of cm_upsert: a write that would leave the balance below zero is
\* rejected and the exception leaves create_movement.
cm_upsert_checked(p) ==
    /\ pc[p] = "cm_upsert"
    /\ BalLockFree(p, frame[p].variant_id)
    /\ IF OnHandM(VisibleBalances(p), frame[p].variant_id) + frame[p].qty < 0
       THEN /\ tx' = [tx EXCEPT ![p] = NoTx]
            /\ frame' = [frame EXCEPT ![p].result = [kind |-> "raised"],
                                      ![p].raised = TRUE]
            /\ pc' = [pc EXCEPT ![p] = "ret"]
       ELSE /\ tx' = [tx EXCEPT ![p] =
                        WithBalance(@, UpsertBalance(VisibleBalances(p),
                                                     frame[p].variant_id,
                                                     frame[p].qty,
                                                     DeltaRolls(frame[p].roll_count)))]
            /\ pc' = [pc EXCEPT ![p] = "cm_select"]
            /\ UNCHANGED frame
    /\ UNCHANGED <<dbVars, stock_movements_id_seq, calls, cancel_log,
                   last_create>>
    /\ UNCHANGED mcpVars

\* The balance upsert; it waits while another transaction holds the row.
cm_upsert(p) ==
    /\ pc[p] = "cm_upsert"
    /\ BalLockFree(p, frame[p].variant_id)
    /\ tx' = [tx EXCEPT ![p] =
                WithBalance(@, UpsertBalance(VisibleBalances(p),
                                             frame[p].variant_id, frame[p].qty,
                                             DeltaRolls(frame[p].roll_count)))]
    /\ pc' = [pc EXCEPT ![p] = "cm_select"]
    /\ UNCHANGED <<dbVars, stock_movements_id_seq, frame, calls, cancel_log,
                   last_create>>
    /\ UNCHANGED mcpVars

\* Mutant of cm_select: the balance is read from the committed rows, not
\* from the rows the call's own transaction wrote.
cm_select_committed(p) ==
    /\ pc[p] = "cm_select"
    /\ frame' = [frame EXCEPT ![p].on_hand_m_after =
                    OnHandM(stock_balances, frame[p].variant_id)]
    /\ pc' = [pc EXCEPT ![p] = "cm_commit"]
    /\ UNCHANGED <<dbVars, stock_movements_id_seq, tx, calls, cancel_log,
                   last_create>>
    /\ UNCHANGED mcpVars

\* SELECT on_hand_m FROM stock_balances WHERE variant_id = %s
cm_select(p) ==
    /\ pc[p] = "cm_select"
    /\ frame' = [frame EXCEPT ![p].on_hand_m_after =
                    OnHandM(VisibleBalances(p), frame[p].variant_id)]
    /\ pc' = [pc EXCEPT ![p] = "cm_commit"]
    /\ UNCHANGED <<dbVars, stock_movements_id_seq, tx, calls, cancel_log,
                   last_create>>
    /\ UNCHANGED mcpVars

\* conn.commit() and the returned dict.
cm_commit(p) ==
    /\ pc[p] = "cm_commit"
    /\ stock_movements' = CommitMovements(tx[p])
    /\ stock_balances' = CommitBalances(tx[p])
    /\ tx' = [tx EXCEPT ![p] = NoTx]
    /\ frame' = [frame EXCEPT ![p].result =
                    [kind |-> "dict", movement_id |-> frame[p].movement_id,
                     delta_qty_m |-> frame[p].qty,
                     on_hand_m_after |-> frame[p].on_hand_m_after]]
    /\ last_create' = Some([id |-> frame[p].movement_id,
                            variant_id |-> frame[p].variant_id,
                            before |-> OnHandM(stock_balances, frame[p].variant_id)])
    /\ pc' = [pc EXCEPT ![p] = "ret"]
    /\ UNCHANGED <<fabric_variants, migrations, stock_movements_id_seq, calls, cancel_log>>
    /\ UNCHANGED mcpVars

\* A storage failure (lost connection, numeric overflow, statement timeout)
\* in a statement after the movement insert: the exception leaves
\* create_movement and the connection goes back to the pool uncommitted.
cm_storage_failure(p) ==
    /\ pc[p] \in {"cm_upsert", "cm_select", "cm_commit"}
    /\ stock_movements' = PutConnMovements(tx[p])
    /\ stock_balances' = PutConnBalances(tx[p])
    /\ tx' = [tx EXCEPT ![p] = NoTx]
    /\ frame' = [frame EXCEPT ![p].result = [kind |-> "raised"],
                              ![p].raised = TRUE]
    /\ pc' = [pc EXCEPT ![p] = "ret"]
    /\ UNCHANGED <<fabric_variants, migrations, stock_movements_id_seq, calls, cancel_log,
                   last_create>>
    /\ UNCHANGED mcpVars

\* ------------------------------------------------------------------------
\* create_movements_batch (repo.py)
\* ------------------------------------------------------------------------
BatchEntries(In) ==
    [variant_id : In.variants, qty : In.qtys, uom : {"m"},
     roll_count : In.rolls]
      \cup [variant_id : {1}, qty : In.qtys, uom : In.uoms \ {"m"},
            roll_count : In.rolls]

\* A statement that raises inside a transaction aborts it: its writes are
\* undone and its locks released at once, and every later statement of the
\* connection raises until the transaction is ended.
AbortedTx ==
    [status |-> "INERROR", ins |-> {}, upd |-> {}, bal |-> {}, var |-> {}]

\* except Exception as e: failed.append({...}); nothing else is done.
ExceptTx(t) == AbortedTx

FailedEntry(item, error) ==
    [variant_id |-> item.variant_id, qty |-> item.qty, error |-> error]

Item(p) == frame[p].items[frame[p].i]

create_movements_batch_call(p, In) ==
    /\ CanCall(p, In.max_calls)
    /\ \E n \in 0..MaxBatch, ty \in In.types :
          frame' = [frame EXCEPT ![p] =
                      [NoFrame EXCEPT !.op = "create_movements_batch",
                                      !.n = n, !.i = 1,
                                      !.movement_type = ty]]
    /\ pc' = [pc EXCEPT ![p] = "b_next"]
    /\ calls' = calls + 1
    /\ UNCHANGED <<dbVars, stock_movements_id_seq, tx, cancel_log, last_create>>
    /\ UNCHANGED mcpVars

\* for item in items: the next entry of the list.  The entries of the input
\* list are drawn as the loop reaches them; frame[p].n is the list's length.
b_next(p, In) ==
    /\ pc[p] = "b_next"
    /\ frame[p].i <= frame[p].n
    /\ \E item \in BatchEntries(In) :
          frame' = [frame EXCEPT ![p].items = Append(@, item)]
    /\ pc' = [pc EXCEPT ![p] = "b_lookup"]
    /\ UNCHANGED <<dbVars, stock_movements_id_seq, tx, calls, cancel_log,
                   last_create>>
    /\ UNCHANGED mcpVars

\* Mutant of b_lookup: an entry whose item is not found is skipped without
\* being recorded.
b_lookup_drops_missing(p) ==
    /\ pc[p] = "b_lookup"
    /\ IF tx[p].status = "INERROR"
       THEN /\ frame' = [frame EXCEPT
                           ![p].failed = Append(@, FailedEntry(Item(p), "exception")),
                           ![p].raised = TRUE,
                           ![p].i = @ + 1]
            /\ tx' = [tx EXCEPT ![p] = ExceptTx(@)]
            /\ pc' = [pc EXCEPT ![p] = "b_next"]
       ELSE IF IsNull(LookupVariant(Item(p).variant_id))
       THEN /\ frame' = [frame EXCEPT ![p].i = @ + 1]
            /\ tx' = [tx EXCEPT ![p].status = "INTRANS"]
            /\ pc' = [pc EXCEPT ![p] = "b_next"]
       ELSE /\ frame' = [frame EXCEPT
                           ![p].variant_id = Val(LookupVariant(Item(p).variant_id))]
            /\ tx' = [tx EXCEPT ![p].status = "INTRANS"]
            /\ pc' = [pc EXCEPT ![p] = "b_prev"]
    /\ UNCHANGED <<dbVars, stock_movements_id_seq, calls, cancel_log, last_create>>
    /\ UNCHANGED mcpVars

\* Look up the variant.  In an aborted transaction the statement raises and
\* the handler records the entry as failed.
b_lookup(p) ==
    /\ pc[p] = "b_lookup"
    /\ IF tx[p].status = "INERROR"
       THEN /\ frame' = [frame EXCEPT
                           ![p].failed = Append(@, FailedEntry(Item(p), "exception")),
                           ![p].raised = TRUE,
                           ![p].i = @ + 1]
            /\ tx' = [tx EXCEPT ![p] = ExceptTx(@)]
            /\ pc' = [pc EXCEPT ![p] = "b_next"]
       ELSE IF IsNull(LookupVariant(Item(p).variant_id))
       THEN /\ frame' = [frame EXCEPT
                           ![p].failed = Append(@, FailedEntry(Item(p), "not found")),
                           ![p].i = @ + 1]
            /\ tx' = [tx EXCEPT ![p].status = "INTRANS"]
            /\ pc' = [pc EXCEPT ![p] = "b_next"]
       ELSE /\ frame' = [frame EXCEPT
                           ![p].variant_id = Val(LookupVariant(Item(p).variant_id))]
            /\ tx' = [tx EXCEPT ![p].status = "INTRANS"]
            /\ pc' = [pc EXCEPT ![p] = "b_prev"]
    /\ UNCHANGED <<dbVars, stock_movements_id_seq, calls, cancel_log, last_create>>
    /\ UNCHANGED mcpVars

\* Mutant of b_prev: the previous balance is read from the committed rows,
\* without the writes of the batch's earlier entries.
b_prev_committed(p) ==
    /\ pc[p] = "b_prev"
    /\ frame' = [frame EXCEPT ![p].previous_balance =
                    OnHandM(stock_balances, frame[p].variant_id)]
    /\ pc' = [pc EXCEPT ![p] = "b_insert"]
    /\ UNCHANGED <<dbVars, stock_movements_id_seq, tx, calls, cancel_log,
                   last_create>>
    /\ UNCHANGED mcpVars

\* SELECT COALESCE(on_hand_m, 0) ...: previous_balance, 0.0 without a row.
b_prev(p) ==
    /\ pc[p] = "b_prev"
    /\ frame' = [frame EXCEPT ![p].previous_balance =
                    OnHandM(VisibleBalances(p), frame[p].variant_id)]
    /\ pc' = [pc EXCEPT ![p] = "b_insert"]
    /\ UNCHANGED <<dbVars, stock_movements_id_seq, tx, calls, cancel_log,
                   last_create>>
    /\ UNCHANGED mcpVars

\* INSERT INTO stock_movements; a rejected row raises into the handler.
b_insert(p) ==
    /\ pc[p] = "b_insert"
    /\ stock_movements_id_seq' = stock_movements_id_seq + 1
    /\ IF RowAccepted(frame[p].movement_type, Item(p).uom)
       THEN /\ tx' = [tx EXCEPT ![p].ins = @ \cup
                        {MovementRow(stock_movements_id_seq + 1,
                                     frame[p].variant_id, frame[p].movement_type,
                                     Item(p).qty, Item(p).uom,
                                     Item(p).roll_count)}]
            /\ frame' = [frame EXCEPT ![p].movement_id = stock_movements_id_seq + 1]
            /\ pc' = [pc EXCEPT ![p] = "b_upsert"]
       ELSE /\ tx' = [tx EXCEPT ![p] = ExceptTx(@)]
            /\ frame' = [frame EXCEPT
                           ![p].failed = Append(@, FailedEntry(Item(p), "exception")),
                           ![p].raised = TRUE,
                           ![p].i = @ + 1]
            /\ pc' = [pc EXCEPT ![p] = "b_next"]
    /\ UNCHANGED <<dbVars, calls, cancel_log, last_create>>
    /\ UNCHANGED mcpVars

\* Mutant of b_upsert: the entry's balance write does not wait for the row
\* lock.
b_upsert_unlocked(p) ==
    /\ pc[p] = "b_upsert"
    /\ tx' = [tx EXCEPT ![p] =
                WithBalance(@, UpsertBalance(VisibleBalances(p),
                                             frame[p].variant_id, Item(p).qty,
                                             DeltaRolls(Item(p).roll_count)))]
    /\ pc' = [pc EXCEPT ![p] = "b_select"]
    /\ UNCHANGED <<dbVars, stock_movements_id_seq, frame, calls, cancel_log,
                   last_create>>
    /\ UNCHANGED mcpVars

\* The balance upsert of the entry.
b_upsert(p) ==
    /\ pc[p] = "b_upsert"
    /\ BalLockFree(p, frame[p].variant_id)
    /\ tx' = [tx EXCEPT ![p] =
                WithBalance(@, UpsertBalance(VisibleBalances(p),
                                             frame[p].variant_id, Item(p).qty,
                                             DeltaRolls(Item(p).roll_count)))]
    /\ pc' = [pc EXCEPT ![p] = "b_select"]
    /\ UNCHANGED <<dbVars, stock_movements_id_seq, frame, calls, cancel_log,
                   last_create>>
    /\ UNCHANGED mcpVars

\* SELECT on_hand_m ...: new_balance; processed.append({...}).
b_select(p) ==
    /\ pc[p] = "b_select"
    /\ frame' = [frame EXCEPT
                   ![p].processed = Append(@,
                       [variant_id |-> Item(p).variant_id, qty |-> Item(p).qty,
                        previous_balance |-> frame[p].previous_balance,
                        new_balance |-> OnHandM(VisibleBalances(p),
                                                frame[p].variant_id),
                        movement_id |-> frame[p].movement_id]),
                   ![p].i = @ + 1]
    /\ pc' = [pc EXCEPT ![p] = "b_next"]
    /\ UNCHANGED <<dbVars, stock_movements_id_seq, tx, calls, cancel_log,
                   last_create>>
    /\ UNCHANGED mcpVars

\* Mutant of b_commit: a call without entries is answered with an error.
b_commit_rejects_empty(p) ==
    /\ pc[p] = "b_next"
    /\ frame[p].i > frame[p].n
    /\ stock_movements' = CommitMovements(tx[p])
    /\ stock_balances' = CommitBalances(tx[p])
    /\ last_create' = TrackCommit(tx[p])
    /\ tx' = [tx EXCEPT ![p] = NoTx]
    /\ frame' = [frame EXCEPT
                   ![p].result =
                       IF frame[p].n = 0 THEN [kind |-> "raised"]
                       ELSE [kind |-> "batch", processed |-> frame[p].processed,
                             failed |-> frame[p].failed],
                   ![p].raised = (frame[p].n = 0) \/ @]
    /\ pc' = [pc EXCEPT ![p] = "ret"]
    /\ UNCHANGED <<fabric_variants, migrations, stock_movements_id_seq, calls, cancel_log>>
    /\ UNCHANGED mcpVars

\* After the loop: conn.commit(), once for the whole call.  On an aborted
\* transaction the server answers COMMIT with a rollback and no error.
b_commit(p) ==
    /\ pc[p] = "b_next"
    /\ frame[p].i > frame[p].n
    /\ stock_movements' = CommitMovements(tx[p])
    /\ stock_balances' = CommitBalances(tx[p])
    /\ last_create' = TrackCommit(tx[p])
    /\ tx' = [tx EXCEPT ![p] = NoTx]
    /\ frame' = [frame EXCEPT ![p].result =
                    [kind |-> "batch", processed |-> frame[p].processed,
                     failed |-> frame[p].failed]]
    /\ pc' = [pc EXCEPT ![p] = "ret"]
    /\ UNCHANGED <<fabric_variants, migrations, stock_movements_id_seq, calls, cancel_log>>
    /\ UNCHANGED mcpVars

\* Lock waits: the transactions holding the row lock that p's next statement
\* needs.
WaitsFor(p) ==
    IF pc[p] \in {"cm_upsert", "b_upsert", "c_balance"}
    THEN BalLockHolders(frame[p].variant_id) \ {p}
    ELSE IF pc[p] = "c_update"
    THEN MovLockHolders(frame[p].movement_id) \ {p}
    ELSE {}

RECURSIVE WaitClosure(_, _)
WaitClosure(S, n) ==
    IF n = 0 THEN S
    ELSE WaitClosure(S \cup UNION {WaitsFor(q) : q \in S}, n - 1)

InDeadlock(p) == p \in WaitClosure(WaitsFor(p), Cardinality(DOMAIN tx))

\* The server detects a lock cycle and fails the waiting upsert of one of
\* its members; in create_movements_batch the handler catches it.
b_deadlock(p) ==
    /\ pc[p] = "b_upsert"
    /\ InDeadlock(p)
    /\ tx' = [tx EXCEPT ![p] = ExceptTx(@)]
    /\ frame' = [frame EXCEPT
                   ![p].failed = Append(@, FailedEntry(Item(p), "exception")),
                   ![p].raised = TRUE,
                   ![p].i = @ + 1]
    /\ pc' = [pc EXCEPT ![p] = "b_next"]
    /\ UNCHANGED <<dbVars, stock_movements_id_seq, calls, cancel_log,
                   last_create>>
    /\ UNCHANGED mcpVars

\* ------------------------------------------------------------------------
\* cancel_movement (the repository function behind cancel_movement_route)
\* ------------------------------------------------------------------------

\* Mutant of cancel_movement_route: the two error answers are exchanged.
cancel_movement_route_swapped(kind) ==
    IF kind = "ValueError" THEN 404
    ELSE IF kind = "None" THEN 400
    ELSE 200

\* routes/movements.py: ValueError -> 400, None -> 404, otherwise the result.
cancel_movement_route(kind) ==
    IF kind = "ValueError" THEN 400
    ELSE IF kind = "None" THEN 404
    ELSE 200

\* The balance row with the movement's contribution taken out.
ReverseBalance(old, delta_qty_m, roll_count) ==
    [variant_id |-> old.variant_id,
     on_hand_m |-> old.on_hand_m - delta_qty_m,
     on_hand_rolls |-> IF IsNull(roll_count) THEN old.on_hand_rolls
                       ELSE old.on_hand_rolls - Val(roll_count)]

\* Mutant of CancelledRow: the flag is set without the time of cancellation.
CancelledRowNoTimestamp(m) == [m EXCEPT !.is_cancelled = TRUE]

\* The movement row flagged cancelled.
CancelledRow(m) == [m EXCEPT !.is_cancelled = TRUE, !.cancelled_at = Some("now")]

cancel_movement_call(p) ==
    /\ CanCall(p, MaxCalls)
    /\ \E id \in 1..(stock_movements_id_seq + 1) :
          frame' = [frame EXCEPT ![p] =
                      [NoFrame EXCEPT
                         !.op = "cancel_movement", !.movement_id = id,
                         !.was_active = \E m \in MovementRows(stock_movements, id) :
                                           ~m.is_cancelled,
                         !.was_cancelled = \E m \in MovementRows(stock_movements, id) :
                                              m.is_cancelled]]
    /\ pc' = [pc EXCEPT ![p] = "c_update"]
    /\ calls' = calls + 1
    /\ UNCHANGED <<dbVars, stock_movements_id_seq, tx, cancel_log, last_create>>
    /\ UNCHANGED mcpVars

\* The atomic check-and-transition: update ... where id = %s and
\* is_cancelled = false, under the row lock; no row changed means the
\* movement is missing (NotFound) or already cancelled (AlreadyCancelled).
c_update(p) ==
    /\ pc[p] = "c_update"
    /\ MovLockFree(p, frame[p].movement_id)
    /\ LET rows == MovementRows(stock_movements, frame[p].movement_id)
       IN IF rows = {} \/ (\E m \in rows : m.is_cancelled)
          THEN LET kind == IF rows = {} THEN "None" ELSE "ValueError"
               IN /\ frame' = [frame EXCEPT ![p].result =
                                 [kind |-> kind,
                                  status |-> cancel_movement_route(kind)]]
                  /\ tx' = [tx EXCEPT ![p] = NoTx]
                  /\ pc' = [pc EXCEPT ![p] = "ret"]
          ELSE LET m == CHOOSE r \in rows : TRUE
               IN /\ tx' = [tx EXCEPT ![p].status = "INTRANS",
                                      ![p].upd = @ \cup {CancelledRow(m)}]
                  /\ frame' = [frame EXCEPT ![p].variant_id = m.variant_id,
                                            ![p].qty = m.delta_qty_m,
                                            ![p].roll_count = m.roll_count]
                  /\ pc' = [pc EXCEPT ![p] = "c_balance"]
    /\ UNCHANGED <<dbVars, stock_movements_id_seq, calls, cancel_log,
                   last_create>>
    /\ UNCHANGED mcpVars

\* The reversal, an in-place decrement of the balance row under its lock.
c_balance(p) ==
    /\ pc[p] = "c_balance"
    /\ BalLockFree(p, frame[p].variant_id)
    /\ LET rows == BalanceRows(VisibleBalances(p), frame[p].variant_id)
       IN /\ tx' = IF rows = {} THEN tx
                   ELSE [tx EXCEPT ![p] =
                           WithBalance(@, ReverseBalance(CHOOSE b \in rows : TRUE,
                                                         frame[p].qty,
                                                         frame[p].roll_count))]
          /\ frame' = [frame EXCEPT ![p].on_hand_m_after =
                          IF rows = {} THEN 0
                          ELSE (CHOOSE b \in rows : TRUE).on_hand_m - frame[p].qty]
    /\ pc' = [pc EXCEPT ![p] = "c_commit"]
    /\ UNCHANGED <<dbVars, stock_movements_id_seq, calls, cancel_log,
                   last_create>>
    /\ UNCHANGED mcpVars

c_commit(p) ==
    /\ pc[p] = "c_commit"
    /\ stock_movements' = CommitMovements(tx[p])
    /\ stock_balances' = CommitBalances(tx[p])
    /\ last_create' = TrackCommit(tx[p])
    /\ tx' = [tx EXCEPT ![p] = NoTx]
    /\ cancel_log' = Append(cancel_log, frame[p].movement_id)
    /\ frame' = [frame EXCEPT ![p].result =
                    [kind |-> "cancelled",
                     status |-> cancel_movement_route("cancelled"),
                     reversed_qty_m |-> 0 - frame[p].qty,
                     new_balance_m |-> frame[p].on_hand_m_after]]
    /\ pc' = [pc EXCEPT ![p] = "ret"]
    /\ UNCHANGED <<fabric_variants, migrations, stock_movements_id_seq, calls>>
    /\ UNCHANGED mcpVars

\* ------------------------------------------------------------------------
\* The ledger under concurrent callers
\* ------------------------------------------------------------------------
\* The arguments the callers draw from.
CreateInputs ==
    [variants |-> VariantIds, qtys |-> Qtys, uoms |-> {"m"}, rolls |-> {NULL},
     types |-> MovementTypes, max_calls |-> MaxCalls]

BatchInputs ==
    [variants |-> VariantIds, qtys |-> {2}, uoms |-> Uoms, rolls |-> {NULL},
     types |-> MovementTypes, max_calls |-> MaxCalls]

Next ==
    \E p \in Procs :
        \/ create_movement_call(p, CreateInputs)
        \/ cm_check(p)
        \/ cm_insert(p)
        \/ cm_upsert(p)
        \/ cm_select(p)
        \/ cm_commit(p)
        \/ cm_storage_failure(p)
        \/ create_movement_by_codes_call(p, CreateInputs)
        \/ cbc_lookup(p)
        \/ create_movements_batch_call(p, BatchInputs)
        \/ b_next(p, BatchInputs)
        \/ b_lookup(p)
        \/ b_prev(p)
        \/ b_insert(p)
        \/ b_upsert(p)
        \/ b_deadlock(p)
        \/ b_select(p)
        \/ b_commit(p)
        \/ cancel_movement_call(p)
        \/ c_update(p)
        \/ c_balance(p)
        \/ c_commit(p)

Spec == Init /\ [][Next]_vars

\* C1: for every item the stored on_hand_m equals the sum of delta_qty_m of
\* its non-cancelled movements, a missing balance row counting as 0.
BalanceEqualsLedger ==
    \A v \in VariantIds :
        OnHandM(stock_balances, v) = SumDelta(ActiveMovementsOf(stock_movements, v))

\* Witness of C1: a batch and a cancellation have both committed, leaving a
\* cancelled movement and an active later one.
BalanceEqualsLedgerWitness ==
    /\ \E m \in stock_movements : m.is_cancelled
    /\ \E m \in stock_movements : ~m.is_cancelled /\ m.id > 1
                                   /\ OnHandM(stock_balances, m.variant_id) # 0

\* ------------------------------------------------------------------------
\* N concurrent create_movement(X, +1) on an item without a balance row
\* ------------------------------------------------------------------------
RaceCallers == 1..RaceProcs
RaceItem == 1

RaceInputs ==
    [variants |-> {RaceItem}, qtys |-> {1}, uoms |-> {"m"}, rolls |-> {NULL},
     types |-> MovementTypes, max_calls |-> RaceProcs]

RaceInit ==
    /\ fabric_variants = InitialVariants
    /\ stock_movements = {}
    /\ stock_balances = {}
    /\ migrations = AllMigrations
    /\ stock_movements_id_seq = 0
    /\ tx = [p \in RaceCallers |-> NoTx]
    /\ pc = [p \in RaceCallers |-> "idle"]
    /\ frame = [p \in RaceCallers |-> NoFrame]
    /\ calls = 0
    /\ cancel_log = <<>>
    /\ last_create = NULL
    /\ McpInit

\* Each of the N callers makes its one call.
race_call(p) == pc[p] = "idle" /\ create_movement_call(p, RaceInputs)

RaceNext ==
    \E p \in RaceCallers :
        \/ race_call(p)
        \/ cm_check(p)
        \/ cm_insert(p)
        \/ cm_upsert(p)
        \/ cm_select(p)
        \/ cm_commit(p)

SpecRace == RaceInit /\ [][RaceNext]_vars

RaceDone == \A p \in RaceCallers : pc[p] = "ret"

\* C2: N concurrent create_movement(X, +1) calls on an item without a
\* balance row all commit and leave on_hand_m = N: while a call is
\* unfinished some call can take a step, every finished call returned its
\* movement, and once all have returned the balance is N.
NoLostIncrement ==
    /\ ~RaceDone => ENABLED RaceNext
    /\ \A p \in RaceCallers : pc[p] = "ret" => frame[p].result.kind = "dict"
    /\ RaceDone =>
          /\ OnHandM(stock_balances, RaceItem) = RaceProcs
          /\ Cardinality(stock_movements) = RaceProcs

\* Witness of C2: all callers returned after two of them had inserted their
\* movement before either wrote the balance row (the last movement id went
\* to the caller that committed first).
NoLostIncrementWitness ==
    /\ RaceDone
    /\ \E p, q \in RaceCallers :
          /\ frame[p].movement_id < frame[q].movement_id
          /\ frame[p].on_hand_m_after > frame[q].on_hand_m_after

\* ------------------------------------------------------------------------
\* C3: atomicity of create_movement
\* ------------------------------------------------------------------------
InCreate(p) == frame[p].op = "create_movement"

\* The committed ledger and the committed balance of every item move by the
\* same amount in every step.
LedgerAndBalanceStep ==
    \A v \in VariantIds :
        SumDelta(ActiveMovementsOf(stock_movements', v))
            - SumDelta(ActiveMovementsOf(stock_movements, v))
        = OnHandM(stock_balances', v) - OnHandM(stock_balances, v)

\* A create_movement that has not committed, or that ended in an exception,
\* has no movement row in the committed table; one that returned has.
CreateCommitted ==
    \A p \in DOMAIN pc :
        InCreate(p) =>
            /\ (pc[p] # "ret" \/ frame[p].result.kind # "dict")
                  => MovementRows(stock_movements, frame[p].movement_id) = {}
            /\ (pc[p] = "ret" /\ frame[p].result.kind = "dict")
                  => \E m \in MovementRows(stock_movements, frame[p].movement_id) :
                        /\ m.variant_id = frame[p].variant_id
                        /\ m.delta_qty_m = frame[p].qty

\* C3: the movement insert and the balance upsert of create_movement commit
\* or fail together, also when a statement after the insert fails: no
\* committed state has the movement without its delta in the balance, or
\* the delta in the balance without the movement.
CreateMovementAtomic == []CreateCommitted /\ [][LedgerAndBalanceStep]_vars

\* Witness of C3: a create_movement failed after its movement insert.
CreateMovementAtomicWitness ==
    \E p \in DOMAIN pc :
        /\ InCreate(p)
        /\ pc[p] = "ret"
        /\ frame[p].result.kind = "raised"
        /\ frame[p].movement_id > 0

\* ------------------------------------------------------------------------
\* C4 - C6: create_movements_batch, partial failure
\* ------------------------------------------------------------------------
InBatch(p) == frame[p].op = "create_movements_batch"

BatchReturned(p) == InBatch(p) /\ pc[p] = "ret"

\* An entry that is valid on its own: its item exists and the storage
\* accepts its row.
ValidEntry(item) ==
    item.variant_id \in fabric_variants /\ item.uom \in ValidUoms

MissingEntries(items) ==
    {k \in 1..Len(items) : items[k].variant_id \notin fabric_variants}

ValidEntries(items) == {k \in 1..Len(items) : ValidEntry(items[k])}

RECURSIVE SumProcessed(_, _)
SumProcessed(processed, v) ==
    IF processed = <<>> THEN 0
    ELSE (IF Head(processed).variant_id = v THEN Head(processed).qty ELSE 0)
            + SumProcessed(Tail(processed), v)

\* The movement row of a processed entry is in the committed ledger.
ProcessedRowCommitted(e) ==
    \E m \in MovementRows(stock_movements, e.movement_id) :
        m.variant_id = e.variant_id /\ m.delta_qty_m = e.qty

\* C4 as claimed: when an entry of a batch failed with a storage-level
\* exception, every entry reported in processed is committed after the call
\* returns.  The code violates it (one transaction wraps the whole batch).
ProcessedSurviveException ==
    \A p \in DOMAIN pc :
        (BatchReturned(p) /\ frame[p].raised) =>
            \A k \in 1..Len(frame[p].processed) :
                ProcessedRowCommitted(frame[p].processed[k])

\* C5 as claimed: a failed entry does not stop the batch, so every entry
\* that is valid on its own is reported in processed.  The code violates it
\* (after an exception every later statement of the call raises).
ValidEntriesProcessed ==
    \A p \in DOMAIN pc :
        BatchReturned(p) =>
            Len(frame[p].processed) = Cardinality(ValidEntries(frame[p].items))

\* A batch without exception reports N - M entries as processed and M as
\* failed, M being the entries that name a missing item, and the processed
\* rows are committed.
BatchCountsAtReturn ==
    \A p \in DOMAIN pc :
        (BatchReturned(p) /\ ~frame[p].raised) =>
            LET M == Cardinality(MissingEntries(frame[p].items))
            IN /\ Len(frame[p].items) = frame[p].n
               /\ Len(frame[p].processed) = frame[p].n - M
               /\ Len(frame[p].failed) = M
               /\ \A k \in 1..Len(frame[p].failed) :
                     frame[p].failed[k].variant_id \notin fabric_variants
               /\ \A k \in 1..Len(frame[p].processed) :
                     ProcessedRowCommitted(frame[p].processed[k])

\* The commit of such a batch changes each item's balance by the sum of qty
\* of its processed entries.
BatchCommitStep ==
    \A p \in DOMAIN pc :
        (InBatch(p) /\ pc[p] = "b_next" /\ pc'[p] = "ret" /\ ~frame[p].raised) =>
            \A v \in VariantIds :
                OnHandM(stock_balances', v) =
                    OnHandM(stock_balances, v) + SumProcessed(frame[p].processed, v)

\* C6: a batch of N entries of which M name a non-existent item and the
\* rest are valid returns N - M processed and M failed entries, and each
\* item's balance changes by the sum of qty of its processed entries.
BatchPartialFailure == []BatchCountsAtReturn /\ [][BatchCommitStep]_vars

\* Witness of C6: a returned batch with a missing item between its entries.
BatchPartialFailureWitness ==
    \E p \in DOMAIN pc :
        /\ BatchReturned(p)
        /\ ~frame[p].raised
        /\ frame[p].n >= 2
        /\ Cardinality(MissingEntries(frame[p].items)) = 1
        /\ Len(frame[p].processed) = frame[p].n - 1
        /\ OnHandM(stock_balances, frame[p].processed[1].variant_id) # 0

\* ------------------------------------------------------------------------
\* C7 - C9: cancel_movement
\* ------------------------------------------------------------------------
InCancel(p) == frame[p].op = "cancel_movement"

\* Number of successful cancel calls on movement id.
CancelCount(id) == Cardinality({k \in 1..Len(cancel_log) : cancel_log[k] = id})

CancelledByLog(v) ==
    {m \in MovementsOf(stock_movements, v) : CancelCount(m.id) > 0}

\* C7: cancelling a movement twice: the second call returns
\* AlreadyCancelled (400) and writes nothing, a call on an active movement
\* succeeds unless another cancel of it did, and over all calls each
\* item's balance is reduced once by the delta of each cancelled movement.
CancelTwice ==
    /\ \A p \in DOMAIN pc :
          InCancel(p) =>
            /\ frame[p].was_cancelled =>
                  /\ tx[p].upd = {} /\ tx[p].bal = {}
                  /\ pc[p] = "ret" => frame[p].result.status = 400
            /\ (frame[p].was_active /\ pc[p] = "ret") =>
                  /\ CancelCount(frame[p].movement_id) = 1
                  /\ \A m \in MovementRows(stock_movements, frame[p].movement_id) :
                        m.is_cancelled
    /\ \A m \in stock_movements : CancelCount(m.id) <= 1
    /\ \A v \in VariantIds :
          OnHandM(stock_balances, v) =
              SumDelta(MovementsOf(stock_movements, v)) - SumDelta(CancelledByLog(v))

\* Witness of C7: a second cancel of a movement that a first call cancelled
\* has returned AlreadyCancelled.
CancelTwiceWitness ==
    \E p \in DOMAIN pc :
        /\ InCancel(p)
        /\ pc[p] = "ret"
        /\ frame[p].was_cancelled
        /\ frame[p].result.status = 400
        /\ CancelCount(frame[p].movement_id) = 1

MovementIdsOf(rows) == {m.id : m \in rows}

\* C8: of the cancel calls on one movement at most one holds or has
\* committed the transition, two concurrent calls never both succeed, and
\* the movement is cancelled in the ledger exactly when one call succeeded.
ConcurrentCancelOnce ==
    /\ \A m \in stock_movements :
          /\ CancelCount(m.id)
                + Cardinality({p \in DOMAIN tx : m.id \in MovementIdsOf(tx[p].upd)}) <= 1
          /\ m.is_cancelled <=> CancelCount(m.id) = 1
    /\ \A p, q \in DOMAIN pc :
          (/\ p # q
           /\ InCancel(p) /\ InCancel(q)
           /\ frame[p].movement_id = frame[q].movement_id
           /\ frame[p].was_active /\ frame[q].was_active
           /\ pc[p] = "ret" /\ pc[q] = "ret")
          => ~(frame[p].result.status = 200 /\ frame[q].result.status = 200)

\* Witness of C8: two calls that both started on the active movement have
\* returned, one with success and one with AlreadyCancelled.
ConcurrentCancelOnceWitness ==
    \E p, q \in DOMAIN pc :
        /\ p # q
        /\ InCancel(p) /\ InCancel(q)
        /\ frame[p].movement_id = frame[q].movement_id
        /\ frame[p].was_active /\ frame[q].was_active
        /\ pc[p] = "ret" /\ pc[q] = "ret"
        /\ frame[p].result.status = 200
        /\ frame[q].result.status = 400
        /\ OnHandM(stock_balances, frame[p].variant_id) = 0

\* C9: create_movement(X, qty) followed by the cancel of that movement, with
\* no other write to X in between, leaves on_hand_m of X as it was before
\* the create, and the movement is flagged cancelled.
RoundTripRestores ==
    /\ ~IsNull(last_create) =>
          \A m \in MovementRows(stock_movements, Val(last_create).id) :
              m.is_cancelled =>
                  OnHandM(stock_balances, Val(last_create).variant_id)
                      = Val(last_create).before
    /\ \A p \in DOMAIN pc :
          (InCancel(p) /\ pc[p] = "ret" /\ frame[p].result.status = 200) =>
              \A m \in MovementRows(stock_movements, frame[p].movement_id) :
                  m.is_cancelled /\ ~IsNull(m.cancelled_at)

\* Witness of C9: the movement of the last create_movement, made on an item
\* with a non-zero balance, has been cancelled.
RoundTripRestoresWitness ==
    /\ ~IsNull(last_create)
    /\ Val(last_create).before # 0
    /\ \E m \in MovementRows(stock_movements, Val(last_create).id) : m.is_cancelled

\* ------------------------------------------------------------------------
\* create_variants_batch (repo.py)
\* ------------------------------------------------------------------------
VariantCallers == {1}

\* The unique index on (fabric_id, color_code): an insert waits while another
\* open transaction holds the same key.
VariantKeyFree(p, color_code) ==
    \A q \in DOMAIN tx \ {p} : color_code \notin tx[q].var

create_variants_batch_call(p) ==
    /\ CanCall(p, MaxVariantCalls)
    /\ \E fc \in FabricCodes, n \in 0..MaxBatch :
          frame' = [frame EXCEPT ![p] =
                      [NoFrame EXCEPT !.op = "create_variants_batch",
                                      !.fabric_code = fc, !.n = n, !.i = 1]]
    /\ pc' = [pc EXCEPT ![p] = "v_fabric"]
    /\ calls' = calls + 1
    /\ UNCHANGED <<dbVars, stock_movements_id_seq, tx, cancel_log, last_create>>
    /\ UNCHANGED mcpVars

\* Mutant of v_fabric: the loop is entered without checking that the lookup
\* found the fabric.
v_fabric_unchecked(p) ==
    /\ pc[p] = "v_fabric"
    /\ tx' = [tx EXCEPT ![p].status = "INTRANS"]
    /\ pc' = [pc EXCEPT ![p] = "v_next"]
    /\ UNCHANGED <<dbVars, stock_movements_id_seq, frame, calls, cancel_log,
                   last_create>>
    /\ UNCHANGED mcpVars

\* SELECT id FROM fabrics WHERE fabric_code = %s; (None, [], []) without it.
v_fabric(p) ==
    /\ pc[p] = "v_fabric"
    /\ IF frame[p].fabric_code \in fabrics
       THEN /\ tx' = [tx EXCEPT ![p].status = "INTRANS"]
            /\ pc' = [pc EXCEPT ![p] = "v_next"]
            /\ UNCHANGED frame
       ELSE /\ tx' = [tx EXCEPT ![p] = NoTx]
            /\ frame' = [frame EXCEPT ![p].result =
                           [kind |-> "variants", fabric_id |-> NULL,
                            created |-> <<>>, failed |-> <<>>]]
            /\ pc' = [pc EXCEPT ![p] = "ret"]
    /\ UNCHANGED <<dbVars, stock_movements_id_seq, calls, cancel_log, last_create>>
    /\ UNCHANGED mcpVars

\* for variant in variants: the next entry, drawn as the loop reaches it.
v_next(p) ==
    /\ pc[p] = "v_next"
    /\ frame[p].i <= frame[p].n
    /\ \E color_code \in VariantIds :
          frame' = [frame EXCEPT ![p].items = Append(@, [color_code |-> color_code])]
    /\ pc' = [pc EXCEPT ![p] = "v_insert"]
    /\ UNCHANGED <<dbVars, stock_movements_id_seq, tx, calls, cancel_log,
                   last_create>>
    /\ UNCHANGED mcpVars

\* INSERT INTO fabric_variants inside try; the handler of a duplicate key
\* calls conn.rollback(), which ends the transaction of the whole call so
\* far, and the loop goes on in a new one.
v_insert(p) ==
    /\ pc[p] = "v_insert"
    /\ VariantKeyFree(p, Item(p).color_code)
    /\ IF Item(p).color_code \in fabric_variants \cup tx[p].var
       THEN /\ tx' = [tx EXCEPT ![p] = NoTx]
            /\ frame' = [frame EXCEPT
                           ![p].failed = Append(@, [color_code |-> Item(p).color_code,
                                                    error |-> "already exists"]),
                           ![p].raised = TRUE,
                           ![p].i = @ + 1]
       ELSE /\ tx' = [tx EXCEPT ![p].status = "INTRANS",
                                ![p].var = @ \cup {Item(p).color_code}]
            /\ frame' = [frame EXCEPT
                           ![p].created = Append(@, [fabric_code |-> frame[p].fabric_code,
                                                     color_code |-> Item(p).color_code]),
                           ![p].i = @ + 1]
    /\ pc' = [pc EXCEPT ![p] = "v_next"]
    /\ UNCHANGED <<dbVars, stock_movements_id_seq, calls, cancel_log, last_create>>
    /\ UNCHANGED mcpVars

\* After the loop: conn.commit() and the returned triple.
v_commit(p) ==
    /\ pc[p] = "v_next"
    /\ frame[p].i > frame[p].n
    /\ fabric_variants' = fabric_variants \cup tx[p].var
    /\ tx' = [tx EXCEPT ![p] = NoTx]
    /\ frame' = [frame EXCEPT ![p].result =
                    [kind |-> "variants", fabric_id |-> Some(frame[p].fabric_code),
                     created |-> frame[p].created, failed |-> frame[p].failed]]
    /\ pc' = [pc EXCEPT ![p] = "ret"]
    /\ UNCHANGED <<stock_movements, stock_balances, migrations, stock_movements_id_seq, calls,
                   cancel_log, last_create>>
    /\ UNCHANGED mcpVars

VariantsNext ==
    \E p \in VariantCallers :
        \/ create_variants_batch_call(p)
        \/ v_fabric(p)
        \/ v_next(p)
        \/ v_insert(p)
        \/ v_commit(p)

SpecVariants == Init /\ [][VariantsNext]_vars

\* C10 as claimed: after create_variants_batch returns, every variant
\* reported in created exists under the fabric, whatever failed beside it.
\* The code violates it (the handler's rollback undoes the earlier inserts).
CreatedVariantsExist ==
    \A p \in DOMAIN pc :
        (frame[p].op = "create_variants_batch" /\ pc[p] = "ret") =>
            \A k \in 1..Len(frame[p].result.created) :
                frame[p].result.created[k].color_code \in fabric_variants

\* ------------------------------------------------------------------------
\* C11: create_movement on a missing item
\* ------------------------------------------------------------------------
MissingItemCall(p) ==
    /\ frame[p].op \in {"create_movement", "create_movement_by_codes"}
    /\ frame[p].variant_id \notin fabric_variants

\* A call that names a missing item never gets past its lookup, has no
\* pending write, and returns None.
NotFoundNoWrite ==
    \A p \in DOMAIN pc :
        MissingItemCall(p) =>
            /\ pc[p] \in {"cm_check", "cbc_lookup", "ret"}
            /\ tx[p].ins = {} /\ tx[p].bal = {} /\ tx[p].upd = {}
            /\ pc[p] = "ret" => frame[p].result.kind = "None"

\* The step in which such a call returns leaves both tables as they were.
NotFoundStep ==
    \A p \in DOMAIN pc :
        (MissingItemCall(p) /\ pc[p] # "ret" /\ pc'[p] = "ret") =>
            /\ stock_movements' = stock_movements
            /\ stock_balances' = stock_balances
            /\ stock_movements_id_seq' = stock_movements_id_seq

\* C11: create_movement on an item id that references no item returns None
\* (no exception) and writes nothing: the movement rows and every balance
\* row are unchanged.
CreateMissingItem == []NotFoundNoWrite /\ [][NotFoundStep]_vars

\* Witness of C11: a create_movement on a missing item has returned None.
CreateMissingItemWitness ==
    \E p \in DOMAIN pc :
        /\ frame[p].op = "create_movement"
        /\ frame[p].variant_id \notin fabric_variants
        /\ pc[p] = "ret"
        /\ frame[p].result.kind = "None"

\* ------------------------------------------------------------------------
\* get_stock_balance (repo.py) and the ledger with roll counts
\* ------------------------------------------------------------------------
get_stock_balance_call(p, In) ==
    /\ CanCall(p, In.max_calls)
    /\ \E v \in In.variants :
          frame' = [frame EXCEPT ![p] =
                      [NoFrame EXCEPT !.op = "get_stock_balance",
                                      !.variant_id = v]]
    /\ pc' = [pc EXCEPT ![p] = "gs_select"]
    /\ calls' = calls + 1
    /\ UNCHANGED <<dbVars, stock_movements_id_seq, tx, cancel_log, last_create>>
    /\ UNCHANGED mcpVars

\* Mutant of gs_select: the balance is joined with an inner join, so a
\* variant without a balance row has no result row.
gs_select_inner_join(p) ==
    /\ pc[p] = "gs_select"
    /\ frame' = [frame EXCEPT ![p].result =
          IF /\ frame[p].variant_id \in fabric_variants
             /\ BalanceRows(stock_balances, frame[p].variant_id) # {}
          THEN [kind |-> "dict", variant_id |-> frame[p].variant_id,
                on_hand_m |-> OnHandM(stock_balances, frame[p].variant_id),
                on_hand_rolls |-> OnHandRolls(stock_balances, frame[p].variant_id)]
          ELSE [kind |-> "None"]]
    /\ pc' = [pc EXCEPT ![p] = "ret"]
    /\ UNCHANGED <<dbVars, stock_movements_id_seq, tx, calls, cancel_log,
                   last_create>>
    /\ UNCHANGED mcpVars

\* SELECT ... COALESCE(sb.on_hand_m, 0), COALESCE(sb.on_hand_rolls, 0) FROM
\* fabric_variants v LEFT JOIN stock_balances sb ... WHERE v.id = %s; None
\* without a variant row.
gs_select(p) ==
    /\ pc[p] = "gs_select"
    /\ frame' = [frame EXCEPT ![p].result =
          IF frame[p].variant_id \in fabric_variants
          THEN [kind |-> "dict", variant_id |-> frame[p].variant_id,
                on_hand_m |-> OnHandM(stock_balances, frame[p].variant_id),
                on_hand_rolls |-> OnHandRolls(stock_balances, frame[p].variant_id)]
          ELSE [kind |-> "None"]]
    /\ pc' = [pc EXCEPT ![p] = "ret"]
    /\ UNCHANGED <<dbVars, stock_movements_id_seq, tx, calls, cancel_log,
                   last_create>>
    /\ UNCHANGED mcpVars

\* Callers that supply roll counts: every existing variant, with and without
\* roll_count.
RollInputs ==
    [variants |-> InitialVariants, qtys |-> {2}, uoms |-> {"m"},
     rolls |-> RollCounts, types |-> MovementTypes, max_calls |-> MaxCalls]

RollsNext ==
    \E p \in Procs :
        \/ create_movement_call(p, RollInputs)
        \/ cm_check(p)
        \/ cm_insert(p)
        \/ cm_upsert(p)
        \/ cm_select(p)
        \/ cm_commit(p)
        \/ cm_storage_failure(p)
        \/ create_movements_batch_call(p, RollInputs)
        \/ b_next(p, RollInputs)
        \/ b_lookup(p)
        \/ b_prev(p)
        \/ b_insert(p)
        \/ b_upsert(p)
        \/ b_deadlock(p)
        \/ b_select(p)
        \/ b_commit(p)
        \/ cancel_movement_call(p)
        \/ c_update(p)
        \/ c_balance(p)
        \/ c_commit(p)
        \/ get_stock_balance_call(p, RollInputs)
        \/ gs_select(p)

SpecRolls == Init /\ [][RollsNext]_vars

\* C12: for every item the stored on_hand_rolls equals the sum of roll_count
\* over its non-cancelled movements with a non-null roll_count, a missing
\* balance row counting as 0.
RollsEqualLedger ==
    \A v \in VariantIds :
        OnHandRolls(stock_balances, v)
            = SumRolls({m \in ActiveMovementsOf(stock_movements, v) :
                           ~IsNull(m.roll_count)})

\* Witness of C12: an item holds rolls from a movement made with roll_count
\* beside a movement made without, and a movement with rolls was cancelled.
RollsEqualLedgerWitness ==
    /\ \E m \in stock_movements : m.is_cancelled /\ ~IsNull(m.roll_count)
    /\ \E m, k \in stock_movements :
          /\ m.variant_id = k.variant_id
          /\ ~m.is_cancelled /\ ~k.is_cancelled
          /\ ~IsNull(m.roll_count) /\ IsNull(k.roll_count)
          /\ m.id > 1
          /\ OnHandRolls(stock_balances, m.variant_id) > 0

\* ------------------------------------------------------------------------
\* C13: what the commit of a create_movement changes in stock_balances
\* ------------------------------------------------------------------------
CreateCommits(p) ==
    /\ InCreate(p)
    /\ pc[p] = "cm_commit"
    /\ pc'[p] = "ret"
    /\ frame'[p].result.kind = "dict"

CreateBalanceEffect(p) ==
    LET v == frame[p].variant_id
        qty == frame[p].qty
        roll_count == frame[p].roll_count
    IN /\ BalanceRows(stock_balances, v) # {} =>
             /\ OnHandM(stock_balances', v) = OnHandM(stock_balances, v) + qty
             /\ OnHandRolls(stock_balances', v)
                   = OnHandRolls(stock_balances, v)
                       + (IF IsNull(roll_count) THEN 0 ELSE Val(roll_count))
       /\ BalanceRows(stock_balances, v) = {} =>
             BalanceRows(stock_balances', v)
                 = {[variant_id |-> v, on_hand_m |-> qty,
                     on_hand_rolls |-> IF IsNull(roll_count) THEN 0
                                       ELSE Val(roll_count)]}
       /\ \A w \in VariantIds \ {v} :
             BalanceRows(stock_balances', w) = BalanceRows(stock_balances, w)

\* C13: a create_movement on an item with a balance row and no roll_count
\* adds qty to on_hand_m and leaves on_hand_rolls as it was; without a
\* balance row the row is created with on_hand_m = qty and on_hand_rolls =
\* roll_count or 0; the balance row of no other item changes.
CreateMovementFrame ==
    [][\A p \in DOMAIN pc : CreateCommits(p) => CreateBalanceEffect(p)]_vars

\* Witness of C13: one create_movement without roll_count has committed on
\* the item that had a balance row, another with roll_count on an item that
\* had none.
CreateMovementFrameWitness ==
    \E p, q \in DOMAIN pc :
        /\ InCreate(p) /\ pc[p] = "ret" /\ frame[p].result.kind = "dict"
        /\ frame[p].variant_id = 1 /\ IsNull(frame[p].roll_count)
        /\ OnHandM(stock_balances, 1) = 2 + frame[p].qty
        /\ OnHandRolls(stock_balances, 1) = 1
        /\ InCreate(q) /\ pc[q] = "ret" /\ frame[q].result.kind = "dict"
        /\ frame[q].variant_id = 2 /\ ~IsNull(frame[q].roll_count)
        /\ OnHandRolls(stock_balances, 2) = Val(frame[q].roll_count)

\* ------------------------------------------------------------------------
\* C20: an item without a balance row reads as zero
\* ------------------------------------------------------------------------
InGetStock(p) == frame[p].op = "get_stock_balance"

\* get_stock_balance of an existing item without a balance row.
ReadsZero(p) ==
    (/\ InGetStock(p)
     /\ pc[p] = "gs_select" /\ pc'[p] = "ret"
     /\ frame[p].variant_id \in fabric_variants
     /\ BalanceRows(stock_balances, frame[p].variant_id) = {})
    => /\ frame'[p].result.kind = "dict"
       /\ frame'[p].result.on_hand_m = 0
       /\ frame'[p].result.on_hand_rolls = 0

\* The batch reads previous_balance 0 when it finds no balance row, and
\* reports the value it read.
PreviousBalanceZero(p) ==
    /\ (/\ pc[p] = "b_prev" /\ pc'[p] = "b_insert"
        /\ BalanceRows(VisibleBalances(p), frame[p].variant_id) = {})
       => frame'[p].previous_balance = 0
    /\ (pc[p] = "b_select" /\ pc'[p] = "b_next")
       => /\ Len(frame'[p].processed) = Len(frame[p].processed) + 1
          /\ frame'[p].processed[Len(frame'[p].processed)].previous_balance
                = frame[p].previous_balance

\* A processed entry whose movement is the only movement of its item
\* reports previous_balance 0.
FirstMovementReportsZero ==
    \A p \in DOMAIN pc :
        (InBatch(p) /\ pc[p] = "ret") =>
            \A k \in 1..Len(frame[p].result.processed) :
                LET e == frame[p].result.processed[k]
                IN {m.id : m \in MovementsOf(stock_movements, e.variant_id)}
                       = {e.movement_id}
                   => e.previous_balance = 0

\* C20: reading the stock of an existing item that has no balance row
\* returns on_hand_m = 0 and on_hand_rolls = 0 (not an error, not None), and
\* create_movements_batch reports previous_balance = 0 for the first
\* movement of such an item.
ZeroWithoutBalanceRow ==
    /\ []FirstMovementReportsZero
    /\ [][\A p \in DOMAIN pc : ReadsZero(p) /\ PreviousBalanceZero(p)]_vars

\* Witness of C20: the stock of item 2, which had no movement, was read as
\* zero, and a batch then made its first movement from previous_balance 0.
ZeroWithoutBalanceRowWitness ==
    \E p, q \in DOMAIN pc :
        /\ InGetStock(p) /\ pc[p] = "ret"
        /\ frame[p].variant_id = 2
        /\ frame[p].result.kind = "dict"
        /\ frame[p].result.on_hand_m = 0 /\ frame[p].result.on_hand_rolls = 0
        /\ InBatch(q) /\ pc[q] = "ret"
        /\ \E k \in 1..Len(frame[q].result.processed) :
              /\ frame[q].result.processed[k].variant_id = 2
              /\ frame[q].result.processed[k].previous_balance = 0
              /\ {m.id : m \in MovementsOf(stock_movements, 2)}
                    = {frame[q].result.processed[k].movement_id}

\* ------------------------------------------------------------------------
\* C14: previous_balance and new_balance of a processed entry
\* ------------------------------------------------------------------------

\* C14 as claimed: every entry in processed has new_balance =
\* previous_balance + qty, also when another writer commits a movement on
\* the same item while the batch runs.  The code violates it: the
\* previous_balance is read by a plain SELECT before the upsert takes the
\* row lock.
ProcessedBalancesAddUp ==
    \A p \in DOMAIN pc :
        InBatch(p) =>
            \A k \in 1..Len(frame[p].processed) :
                frame[p].processed[k].new_balance
                    = frame[p].processed[k].previous_balance
                        + frame[p].processed[k].qty

\* ------------------------------------------------------------------------
\* C15: a fixed set of movements on one item, committed in any order
\* ------------------------------------------------------------------------

\* Caller p makes the one movement of quantity OrderQty(p) on the item,
\* through create_movement or as the entry of a batch.
OrderQty(p) == IF p % 2 = 0 THEN 0 - p ELSE p

RECURSIVE OrderTotal(_)
OrderTotal(n) == IF n = 0 THEN 0 ELSE OrderQty(n) + OrderTotal(n - 1)

OrderInputs(p) ==
    [variants |-> {RaceItem}, qtys |-> {OrderQty(p)}, uoms |-> {"m"},
     rolls |-> {NULL}, types |-> MovementTypes, max_calls |-> RaceProcs]

order_create(p) == pc[p] = "idle" /\ create_movement_call(p, OrderInputs(p))

order_batch(p) ==
    /\ pc[p] = "idle"
    /\ create_movements_batch_call(p, OrderInputs(p))
    /\ frame'[p].n = 1
    /\ UNCHANGED mcpVars

OrderNext ==
    \E p \in RaceCallers :
        \/ order_create(p)
        \/ cm_check(p)
        \/ cm_insert(p)
        \/ cm_upsert(p)
        \/ cm_select(p)
        \/ cm_commit(p)
        \/ order_batch(p)
        \/ b_next(p, OrderInputs(p))
        \/ b_lookup(p)
        \/ b_prev(p)
        \/ b_insert(p)
        \/ b_upsert(p)
        \/ b_select(p)
        \/ b_commit(p)

SpecOrder == RaceInit /\ [][OrderNext]_vars

\* C15: whatever the order in which the concurrent create_movement and
\* batch-entry transactions commit, once all have committed the balance is
\* the sum of the fixed set of movements; until then some call can step.
CommitOrderIrrelevant ==
    /\ ~RaceDone => ENABLED OrderNext
    /\ RaceDone =>
          /\ {m.delta_qty_m : m \in stock_movements}
                = {OrderQty(p) : p \in RaceCallers}
          /\ OnHandM(stock_balances, RaceItem) = OrderTotal(RaceProcs)

\* Witness of C15: all have committed, a create_movement of a later caller
\* first (it saw only its own quantity) and a batch entry last.
CommitOrderIrrelevantWitness ==
    /\ RaceDone
    /\ \E p, q \in RaceCallers :
          /\ p > q
          /\ InCreate(p)
          /\ frame[p].result.on_hand_m_after = OrderQty(p)
          /\ InBatch(q)
          /\ Len(frame[q].result.processed) = 1
          /\ frame[q].result.processed[1].new_balance = OrderTotal(RaceProcs)

\* ------------------------------------------------------------------------
\* C16, C17: the cancelled flag and what a cancel changes
\* ------------------------------------------------------------------------

\* A cancelled movement stays cancelled, with the cancelled_at it got.
StaysCancelled ==
    \A m \in stock_movements :
        m.is_cancelled =>
            \A k \in MovementRows(stock_movements', m.id) :
                k.is_cancelled /\ k.cancelled_at = m.cancelled_at

FlagMatchesTimestamp ==
    \A m \in stock_movements :
        /\ m.is_cancelled <=> ~IsNull(m.cancelled_at)
        /\ CancelCount(m.id) <= 1
        /\ m.is_cancelled <=> CancelCount(m.id) = 1

\* C16: is_cancelled only goes from false to true and at most once per
\* movement; no operation makes a cancelled movement active again, and
\* cancelled_at is non-null exactly when is_cancelled is true.
CancelOneWay == []FlagMatchesTimestamp /\ [][StaysCancelled]_vars

\* Witness of C16: a movement was cancelled and a later call on it, and
\* another movement on its item, have both finished.
CancelOneWayWitness ==
    /\ Len(cancel_log) = 1
    /\ \E m \in stock_movements :
          /\ m.id = cancel_log[1]
          /\ m.is_cancelled /\ ~IsNull(m.cancelled_at)
    /\ \E p \in DOMAIN pc :
          /\ pc[p] = "ret"
          /\ frame[p].op # "cancel_movement"
          /\ frame[p].result.kind \in {"dict", "batch"}
          /\ \E m \in stock_movements : m.id > cancel_log[1]

CancelCommits(p) ==
    /\ InCancel(p)
    /\ pc[p] = "c_commit"
    /\ pc'[p] = "ret"

CancelEffect(p) ==
    LET id == frame[p].movement_id
        v == frame[p].variant_id
    IN /\ Cardinality(stock_movements') = Cardinality(stock_movements)
       /\ MovementIdsOf(stock_movements') = MovementIdsOf(stock_movements)
       /\ \A m \in stock_movements :
             IF m.id = id
             THEN \E k \in stock_movements' :
                     /\ k.is_cancelled /\ ~m.is_cancelled
                     /\ k = [m EXCEPT !.is_cancelled = TRUE,
                                      !.cancelled_at = k.cancelled_at]
             ELSE m \in stock_movements'
       /\ \A w \in VariantIds \ {v} :
             BalanceRows(stock_balances', w) = BalanceRows(stock_balances, w)
       /\ \E m \in MovementRows(stock_movements, id) :
             /\ m.variant_id = v
             /\ OnHandM(stock_balances', v)
                   = OnHandM(stock_balances, v) - m.delta_qty_m

\* C17: a successful cancel_movement inserts no movement row and deletes
\* none; the cancelled row keeps its delta, item and type, and only its
\* is_cancelled/cancelled_at and the balance of its item change.
CancelFrame ==
    [][\A p \in DOMAIN pc : CancelCommits(p) => CancelEffect(p)]_vars

\* Witness of C17: a cancel has succeeded on an item while another item
\* holds a movement and a balance.
CancelFrameWitness ==
    \E p \in DOMAIN pc :
        /\ InCancel(p) /\ pc[p] = "ret"
        /\ frame[p].result.status = 200
        /\ \E m \in stock_movements :
              /\ m.variant_id # frame[p].variant_id
              /\ OnHandM(stock_balances, m.variant_id) # 0

\* ------------------------------------------------------------------------
\* init_db and the one-time data migrations (db.py)
\* ------------------------------------------------------------------------

\* The two variants the targeted fix names: '901A' (kept) and '901 (A)'
\* (merged into it and deleted).
TargetVariant == 1
SourceVariant == 2

\* The ledger an earlier run of the system left behind: up to MaxSeedRows
\* movements of existing variants, made on the day the cleanup names or on
\* another day, some cancelled, with the balances the ledger implies.
SeedRowChoices(variants) ==
    [variant_id : variants, created_at : Dates, is_cancelled : BOOLEAN,
     roll_count : RollCounts]

SeedRow(id, c) ==
    [id |-> id, variant_id |-> c.variant_id, movement_type |-> "RECEIPT",
     delta_qty_m |-> 2, original_qty |-> 2, original_uom |-> "m",
     roll_count |-> c.roll_count, created_at |-> c.created_at,
     is_cancelled |-> c.is_cancelled,
     cancelled_at |-> IF c.is_cancelled THEN Some("now") ELSE NULL]

LedgerBalances(M) ==
    {[variant_id |-> v,
      on_hand_m |-> SumDelta(ActiveMovementsOf(M, v)),
      on_hand_rolls |-> SumRolls(ActiveMovementsOf(M, v))] :
        v \in {m.variant_id : m \in M}}

MigrateInit ==
    /\ fabric_variants \in {InitialVariants, {TargetVariant}}
    /\ \E n \in 0..MaxSeedRows :
          \E f \in [1..n -> SeedRowChoices(fabric_variants)] :
              /\ stock_movements = {SeedRow(k, f[k]) : k \in 1..n}
              /\ stock_movements_id_seq = n
    /\ stock_balances = LedgerBalances(stock_movements)
    /\ migrations = {}
    /\ tx = [p \in Procs |-> NoTx]
    /\ pc = [p \in Procs |-> "idle"]
    /\ frame = [p \in Procs |-> NoFrame]
    /\ calls = 0
    /\ cancel_log = <<>>
    /\ last_create = NULL
    /\ McpInit

\* init_db: the pool is created and the DDL, which only creates what is
\* missing, is run and committed; then run_migrations(conn).
init_db_call(p) ==
    /\ CanCall(p, MaxInitCalls)
    /\ frame' = [frame EXCEPT ![p] = [NoFrame EXCEPT !.op = "init_db"]]
    /\ pc' = [pc EXCEPT ![p] = "m_check"]
    /\ calls' = calls + 1
    /\ UNCHANGED <<dbVars, stock_movements_id_seq, tx, cancel_log, last_create>>
    /\ UNCHANGED mcpVars

\* run_migrations: SELECT 1 FROM migrations WHERE name =
\* 'sanitize_codes_cleanup_v1'; when the row is there the function returns.
m_check(p) ==
    /\ pc[p] = "m_check"
    /\ IF SanitizeMigration \in migrations
       THEN /\ pc' = [pc EXCEPT ![p] = "ret"]
            /\ frame' = [frame EXCEPT ![p].result = [kind |-> "returned"]]
            /\ tx' = [tx EXCEPT ![p] = NoTx]
       ELSE /\ pc' = [pc EXCEPT ![p] = "m_cleanup"]
            /\ tx' = [tx EXCEPT ![p].status = "INTRANS"]
            /\ UNCHANGED frame
    /\ UNCHANGED <<dbVars, stock_movements_id_seq, calls, cancel_log, last_create>>
    /\ UNCHANGED mcpVars

\* DELETE FROM stock_movements WHERE created_at::date = '2026-01-15'
_delete_corrupted_movements(M) == {m \in M : m.created_at # CorruptedDate}

\* UPDATE stock_balances SET on_hand_m = 0, on_hand_rolls = 0
ResetBalances(B) ==
    {[variant_id |-> b.variant_id, on_hand_m |-> 0, on_hand_rolls |-> 0] :
        b \in B}

\* SELECT variant_id, SUM(delta_qty_m), SUM(COALESCE(roll_count, 0)) FROM
\* stock_movements WHERE is_cancelled = FALSE GROUP BY variant_id: one row
\* for each item that has a row in rows.
GroupByVariant(rows) ==
    {[variant_id |-> v,
      total_m |-> SumDelta(MovementsOf(rows, v)),
      total_rolls |-> SumRolls(MovementsOf(rows, v))] :
        v \in {m.variant_id : m \in rows}}

\* UPDATE stock_balances sb SET ... FROM agg WHERE sb.variant_id =
\* agg.variant_id: a balance row without a row in agg is left as it is.
UpdateFromAgg(B, agg) ==
    {IF \E a \in agg : a.variant_id = b.variant_id
     THEN LET a == CHOOSE x \in agg : x.variant_id = b.variant_id
          IN [variant_id |-> b.variant_id, on_hand_m |-> a.total_m,
              on_hand_rolls |-> a.total_rolls]
     ELSE b : b \in B}

\* Mutant of _recalculate_balances: the sums run over every movement, the
\* cancelled ones included.
_recalculate_balances_with_cancelled(M, B) ==
    UpdateFromAgg(ResetBalances(B), GroupByVariant(M))

\* The two statements of _recalculate_balances, in order.
_recalculate_balances(M, B) ==
    UpdateFromAgg(ResetBalances(B),
                  GroupByVariant({m \in M : m.is_cancelled = FALSE}))

\* Mutant of m_cleanup: the name of a migration is not a key of the
\* migrations table, so the insert of a name that is already there succeeds.
m_cleanup_no_key(p) ==
    /\ pc[p] = "m_cleanup"
    /\ stock_movements' = _delete_corrupted_movements(stock_movements)
    /\ stock_balances' =
          _recalculate_balances(
              _delete_corrupted_movements(stock_movements), stock_balances)
    /\ migrations' = migrations \cup {SanitizeMigration}
    /\ pc' = [pc EXCEPT ![p] = "t_check"]
    /\ tx' = [tx EXCEPT ![p] = NoTx]
    /\ UNCHANGED <<fabric_variants, frame, stock_movements_id_seq, calls,
                   cancel_log, last_create>>
    /\ UNCHANGED mcpVars

\* Parts A to D of sanitize_codes_cleanup_v1, its row in migrations and the
\* commit: one transaction.  (Parts A and B rewrite fabric and colour codes,
\* which no variant id depends on.)  The insert of a name that another
\* process committed meanwhile violates the primary key: the exception
\* leaves init_db and the transaction is rolled back.
m_cleanup(p) ==
    /\ pc[p] = "m_cleanup"
    /\ IF SanitizeMigration \in migrations
       THEN /\ pc' = [pc EXCEPT ![p] = "ret"]
            /\ frame' = [frame EXCEPT ![p].result = [kind |-> "raised"],
                                      ![p].raised = TRUE]
            /\ UNCHANGED dbVars
       ELSE /\ stock_movements' = _delete_corrupted_movements(stock_movements)
            /\ stock_balances' =
                  _recalculate_balances(
                      _delete_corrupted_movements(stock_movements),
                      stock_balances)
            /\ migrations' = migrations \cup {SanitizeMigration}
            /\ pc' = [pc EXCEPT ![p] = "t_check"]
            /\ UNCHANGED <<fabric_variants, frame>>
    /\ tx' = [tx EXCEPT ![p] = NoTx]
    /\ UNCHANGED <<stock_movements_id_seq, calls, cancel_log, last_create>>
    /\ UNCHANGED mcpVars

\* _run_targeted_color_fixes: SELECT 1 FROM migrations WHERE name =
\* 'targeted_color_fixes_v1'
t_check(p) ==
    /\ pc[p] = "t_check"
    /\ IF TargetedMigration \in migrations
       THEN /\ pc' = [pc EXCEPT ![p] = "ret"]
            /\ frame' = [frame EXCEPT ![p].result = [kind |-> "returned"]]
            /\ tx' = [tx EXCEPT ![p] = NoTx]
       ELSE /\ pc' = [pc EXCEPT ![p] = "t_fix"]
            /\ tx' = [tx EXCEPT ![p].status = "INTRANS"]
            /\ UNCHANGED frame
    /\ UNCHANGED <<dbVars, stock_movements_id_seq, calls, cancel_log, last_create>>
    /\ UNCHANGED mcpVars

\* UPDATE stock_movements SET variant_id = target WHERE variant_id = source
MoveMovements(M, source, target) ==
    {IF m.variant_id = source THEN [m EXCEPT !.variant_id = target] ELSE m :
        m \in M}

\* The balance rows after the merge: the source row deleted, the target row
\* upserted with the sums over the target's non-cancelled movements.
MergeBalances(M, B, source, target) ==
    {b \in B : b.variant_id \notin {source, target}}
        \cup {[variant_id |-> target,
               on_hand_m |-> SumDelta(ActiveMovementsOf(M, target)),
               on_hand_rolls |-> SumRolls(ActiveMovementsOf(M, target))]}

\* Fix 1 (merge, when both variants exist), fix 2 (a rename of a colour
\* code), the row in migrations and the commit: one transaction.
t_fix(p) ==
    /\ pc[p] = "t_fix"
    /\ IF TargetedMigration \in migrations
       THEN /\ pc' = [pc EXCEPT ![p] = "ret"]
            /\ frame' = [frame EXCEPT ![p].result = [kind |-> "raised"],
                                      ![p].raised = TRUE]
            /\ UNCHANGED dbVars
       ELSE /\ IF {TargetVariant, SourceVariant} \subseteq fabric_variants
               THEN /\ stock_movements' =
                          MoveMovements(stock_movements, SourceVariant,
                                        TargetVariant)
                    /\ stock_balances' =
                          MergeBalances(
                              MoveMovements(stock_movements, SourceVariant,
                                            TargetVariant),
                              stock_balances, SourceVariant, TargetVariant)
                    /\ fabric_variants' = fabric_variants \ {SourceVariant}
               ELSE UNCHANGED <<fabric_variants, stock_movements,
                                stock_balances>>
            /\ migrations' = migrations \cup {TargetedMigration}
            /\ pc' = [pc EXCEPT ![p] = "ret"]
            /\ frame' = [frame EXCEPT ![p].result = [kind |-> "returned"]]
    /\ tx' = [tx EXCEPT ![p] = NoTx]
    /\ UNCHANGED <<stock_movements_id_seq, calls, cancel_log, last_create>>
    /\ UNCHANGED mcpVars

\* A storage failure inside a migration: the exception leaves init_db and
\* the open transaction is rolled back.
m_storage_failure(p) ==
    /\ pc[p] \in {"m_cleanup", "t_fix"}
    /\ tx' = [tx EXCEPT ![p] = NoTx]
    /\ frame' = [frame EXCEPT ![p].result = [kind |-> "raised"],
                              ![p].raised = TRUE]
    /\ pc' = [pc EXCEPT ![p] = "ret"]
    /\ UNCHANGED <<dbVars, stock_movements_id_seq, calls, cancel_log,
                   last_create>>
    /\ UNCHANGED mcpVars

MigrateNext ==
    \E p \in Procs :
        \/ init_db_call(p)
        \/ m_check(p)
        \/ m_cleanup(p)
        \/ t_check(p)
        \/ t_fix(p)
        \/ m_storage_failure(p)

SpecMigrate == MigrateInit /\ [][MigrateNext]_vars

\* C18 as claimed: variant_id, movement_type, delta_qty_m, original_qty and
\* original_uom of a movement never change after the row is created, under
\* any operation including the startup data migrations.  The code violates
\* it: the targeted fix rewrites variant_id.
MovementFieldsWriteOnce ==
    [][\A m \in stock_movements :
          \A k \in MovementRows(stock_movements', m.id) :
              /\ k.variant_id = m.variant_id
              /\ k.movement_type = m.movement_type
              /\ k.delta_qty_m = m.delta_qty_m
              /\ k.original_qty = m.original_qty
              /\ k.original_uom = m.original_uom]_vars

\* C19 as claimed: no operation deletes a movement row of an item that
\* still exists.  The code violates it: the cleanup migration deletes the
\* movements of one day.
MovementsNeverDeleted ==
    [][\A m \in stock_movements :
          m.variant_id \in fabric_variants'
              => MovementRows(stock_movements', m.id) # {}]_vars

\* ------------------------------------------------------------------------
\* create_movement under every movement type, unit and sign
\* ------------------------------------------------------------------------

\* Quantities of both signs, as a caller of the repository can pass them.
SignedQtys == {-30, 100}

\* A database without movements or balance rows, the variants loaded.
EmptyLedgerInit ==
    /\ fabric_variants = InitialVariants
    /\ stock_movements = {}
    /\ stock_balances = {}
    /\ migrations = AllMigrations
    /\ stock_movements_id_seq = 0
    /\ tx = [p \in Procs |-> NoTx]
    /\ pc = [p \in Procs |-> "idle"]
    /\ frame = [p \in Procs |-> NoFrame]
    /\ calls = 0
    /\ cancel_log = <<>>
    /\ last_create = NULL
    /\ McpInit

TypeInputs ==
    [variants |-> {1}, qtys |-> SignedQtys, uoms |-> ValidUoms,
     rolls |-> {NULL}, types |-> AllMovementTypes, max_calls |-> MaxCalls]

TypesNext ==
    \E p \in Procs :
        \/ create_movement_call(p, TypeInputs)
        \/ cm_check(p)
        \/ cm_insert(p)
        \/ cm_upsert(p)
        \/ cm_select(p)
        \/ cm_commit(p)
        \/ cm_storage_failure(p)

SpecTypes == EmptyLedgerInit /\ [][TypesNext]_vars

\* The movement row a running or returned create_movement wrote, as its own
\* connection sees it.
RowsWrittenBy(p) ==
    IF frame[p].movement_id = 0 THEN {}
    ELSE MovementRows(VisibleMovements(p), frame[p].movement_id)

\* C21: create_movement records delta_qty_m equal to the qty it was given,
\* for every movement type (RECEIPT, ISSUE, ADJUST) and every unit: the row
\* keeps the type and the unit passed and its quantity has the sign and the
\* magnitude of qty, and the returned delta_qty_m is qty.
DeltaEqualsQty ==
    \A p \in DOMAIN pc :
        InCreate(p) =>
            /\ \A m \in RowsWrittenBy(p) :
                  /\ m.delta_qty_m = frame[p].qty
                  /\ m.original_qty = frame[p].qty
                  /\ m.movement_type = frame[p].movement_type
                  /\ m.original_uom = frame[p].uom
            /\ frame[p].result.kind = "dict" =>
                  /\ frame[p].result.delta_qty_m = frame[p].qty
                  /\ RowsWrittenBy(p) # {}

\* Witness of C21: an ISSUE of a positive quantity in rolls and an ADJUST of
\* a negative quantity in metres have both committed.
DeltaEqualsQtyWitness ==
    \E p, q \in DOMAIN pc :
        /\ InCreate(p) /\ frame[p].result.kind = "dict"
        /\ frame[p].movement_type = "ISSUE" /\ frame[p].uom = "roll"
        /\ frame[p].qty > 0
        /\ \E m \in stock_movements :
              m.id = frame[p].movement_id /\ m.delta_qty_m > 0
        /\ InCreate(q) /\ frame[q].result.kind = "dict"
        /\ frame[q].movement_type = "ADJUST" /\ frame[q].uom = "m"
        /\ frame[q].qty < 0
        /\ \E m \in stock_movements :
              m.id = frame[q].movement_id /\ m.delta_qty_m < 0

\* ------------------------------------------------------------------------
\* The transport callers of the ledger (routes/movements.py, mcp.py)
\* ------------------------------------------------------------------------
Abs(x) == IF x < 0 THEN 0 - x ELSE x

\* qty=-abs(movement.qty)
IssueQty(qty) == 0 - Abs(qty)

\* Mutant of IssueRollCount: the roll count is passed on as the client sent
\* it.
IssueRollCountAsSent(roll_count) == roll_count

\* roll_count=-abs(roll_count) if roll_count is not None else None
IssueRollCount(roll_count) ==
    IF IsNull(roll_count) THEN NULL ELSE Some(0 - Abs(Val(roll_count)))

\* item_dict["qty"] = -abs(item_dict["qty"]); the same for a roll_count that
\* is not None.
IssueItem(item) ==
    [item EXCEPT !.qty = IssueQty(@), !.roll_count = IssueRollCount(@)]

IssueItems(items) == [k \in DOMAIN items |-> IssueItem(items[k])]

\* What a client sends: a quantity and an optional roll count of either sign.
ClientQtys == {30, -30}
ClientRollCounts == {NULL, Some(2), Some(-2)}
ClientMovements ==
    [variant_id : {1}, qty : ClientQtys, uom : {"m"},
     roll_count : ClientRollCounts]
ClientBatchItems ==
    [variant_id : {1}, qty : ClientQtys, uom : {"m"},
     roll_count : {NULL, Some(2)}]
ClientBatches == UNION {[1..n -> ClientBatchItems] : n \in 1..MaxBatch}

ReceiveInputs ==
    [variants |-> {1}, qtys |-> {100}, uoms |-> ValidUoms, rolls |-> {NULL},
     types |-> {"RECEIPT"}, max_calls |-> MaxCalls]

\* POST /movements/receive
receive(p) ==
    /\ CanCall(p, MaxCalls)
    /\ create_movement_by_codes_call(p, ReceiveInputs)

\* The call of create_movement_by_codes an issue makes for the movement the
\* client sent.
IssueByCodes(p, via, movement) ==
    /\ frame' = [frame EXCEPT ![p] =
                   [NoFrame EXCEPT
                      !.op = "create_movement_by_codes", !.via = via,
                      !.sent = <<movement>>,
                      !.variant_id = movement.variant_id,
                      !.movement_type = "ISSUE",
                      !.qty = IssueQty(movement.qty),
                      !.uom = movement.uom,
                      !.roll_count = IssueRollCount(movement.roll_count)]]
    /\ pc' = [pc EXCEPT ![p] = "cbc_lookup"]
    /\ calls' = calls + 1
    /\ UNCHANGED <<dbVars, stock_movements_id_seq, tx, cancel_log, last_create>>
    /\ UNCHANGED mcpVars

\* POST /movements/issue
issue(p) ==
    /\ CanCall(p, MaxCalls)
    /\ \E movement \in ClientMovements : IssueByCodes(p, "issue", movement)

\* call_tool, name == "issue_stock"
issue_stock(p) ==
    /\ CanCall(p, MaxCalls)
    /\ \E args \in ClientMovements : IssueByCodes(p, "issue_stock", args)

\* The call of create_movements_batch an issue batch makes for the items the
\* client sent (between 1 and 50 of them).
IssueBatch(p, via, items) ==
    /\ frame' = [frame EXCEPT ![p] =
                   [NoFrame EXCEPT
                      !.op = "create_movements_batch", !.via = via,
                      !.sent = items,
                      !.items = IssueItems(items), !.n = Len(items), !.i = 1,
                      !.movement_type = "ISSUE"]]
    /\ pc' = [pc EXCEPT ![p] = "b_next"]
    /\ calls' = calls + 1
    /\ UNCHANGED <<dbVars, stock_movements_id_seq, tx, cancel_log, last_create>>
    /\ UNCHANGED mcpVars

\* POST /movements/issue/batch
issue_batch(p) ==
    /\ CanCall(p, MaxCalls)
    /\ \E items \in ClientBatches : IssueBatch(p, "issue_batch", items)

\* call_tool, name == "issue_stock_batch"
issue_stock_batch(p) ==
    /\ CanCall(p, MaxCalls)
    /\ \E items \in ClientBatches : IssueBatch(p, "issue_stock_batch", items)

\* for item in items, the list being the one the caller passed.
b_item(p) ==
    /\ pc[p] = "b_next"
    /\ frame[p].i <= frame[p].n
    /\ Len(frame[p].items) >= frame[p].i
    /\ pc' = [pc EXCEPT ![p] = "b_lookup"]
    /\ UNCHANGED <<dbVars, stock_movements_id_seq, tx, frame, calls,
                   cancel_log, last_create>>
    /\ UNCHANGED mcpVars

TransportNext ==
    \E p \in Procs :
        \/ receive(p)
        \/ issue(p)
        \/ issue_stock(p)
        \/ issue_batch(p)
        \/ issue_stock_batch(p)
        \/ cbc_lookup(p)
        \/ cm_check(p)
        \/ cm_insert(p)
        \/ cm_upsert(p)
        \/ cm_select(p)
        \/ cm_commit(p)
        \/ b_item(p)
        \/ b_lookup(p)
        \/ b_prev(p)
        \/ b_insert(p)
        \/ b_upsert(p)
        \/ b_select(p)
        \/ b_commit(p)

SpecTransport == EmptyLedgerInit /\ [][TransportNext]_vars

\* ------------------------------------------------------------------------
\* C22: the balance create_movement returns
\* ------------------------------------------------------------------------

\* The upsert of a create_movement writes the committed balance plus qty.
CreateUpsertStep(p) ==
    /\ InCreate(p)
    /\ pc[p] = "cm_upsert"
    /\ pc'[p] = "cm_select"

CreateWritesBalancePlusQty(p) ==
    OnHandM(tx'[p].bal, frame[p].variant_id)
        = OnHandM(stock_balances, frame[p].variant_id) + frame[p].qty

CreateReturnsPostWrite(p) ==
    LET v == frame[p].variant_id
        r == frame'[p].result
    IN /\ r.on_hand_m_after = OnHandM(stock_balances, v) + frame[p].qty
       /\ r.on_hand_m_after = OnHandM(stock_balances', v)
       /\ r.delta_qty_m = frame[p].qty

\* C22: create_movement returns the balance after its own write:
\* on_hand_m_after is the committed balance its write found plus qty, and
\* the committed balance once it returns; the returned delta_qty_m is qty.
ReturnsPostWriteBalance ==
    [][\A p \in DOMAIN pc :
          /\ CreateUpsertStep(p) => CreateWritesBalancePlusQty(p)
          /\ CreateCommits(p) => CreateReturnsPostWrite(p)]_vars

\* Witness of C22: a serial run from an empty ledger, a receipt of 100 that
\* returned 100 and then an issue of 30 that returned 70.
ReturnsPostWriteBalanceWitness ==
    \E p, q \in DOMAIN pc :
        /\ pc[p] = "ret" /\ pc[q] = "ret"
        /\ frame[q].result.kind = "dict" /\ frame[q].movement_id = 1
        /\ frame[q].movement_type = "RECEIPT"
        /\ frame[q].result.delta_qty_m = 100
        /\ frame[q].result.on_hand_m_after = 100
        /\ frame[p].result.kind = "dict" /\ frame[p].movement_id = 2
        /\ frame[p].movement_type = "ISSUE"
        /\ frame[p].result.delta_qty_m = -30
        /\ frame[p].result.on_hand_m_after = 70
        /\ OnHandM(stock_balances, 1) = 70

\* ------------------------------------------------------------------------
\* C23: the sign of an issue
\* ------------------------------------------------------------------------
NotPositive(x) == IsNull(x) \/ Val(x) <= 0

\* The movement rows of the ledger, committed or written by an open
\* transaction.
LedgerRows == stock_movements \cup UNION {tx[p].ins : p \in DOMAIN tx}

\* C23: every ISSUE the issue route, the issue batch route and the
\* issue_stock and issue_stock_batch tools make reaches the repository and
\* the ledger with qty <= 0 and, when a roll_count is given, roll_count <= 0,
\* whatever sign the client sent.
IssueNeverPositive ==
    /\ \A m \in LedgerRows :
          m.movement_type = "ISSUE" =>
              m.delta_qty_m <= 0 /\ NotPositive(m.roll_count)
    /\ \A p \in DOMAIN pc :
          frame[p].movement_type = "ISSUE" =>
              /\ frame[p].qty <= 0 /\ NotPositive(frame[p].roll_count)
              /\ \A k \in DOMAIN frame[p].items :
                    /\ frame[p].items[k].qty <= 0
                    /\ NotPositive(frame[p].items[k].roll_count)

\* Witness of C23: an issue and an issue batch whose clients sent a positive
\* quantity and a positive roll count have committed their movements.
IssueNeverPositiveWitness ==
    \E p, q \in DOMAIN pc :
        /\ frame[p].via \in {"issue", "issue_stock"}
        /\ frame[p].result.kind = "dict"
        /\ frame[p].sent[1].qty > 0 /\ frame[p].sent[1].roll_count = Some(2)
        /\ \E m \in stock_movements :
              /\ m.id = frame[p].movement_id /\ m.movement_type = "ISSUE"
              /\ m.delta_qty_m < 0 /\ m.roll_count = Some(-2)
        /\ frame[q].via \in {"issue_batch", "issue_stock_batch"}
        /\ frame[q].result.kind = "batch"
        /\ frame[q].sent[1].qty > 0 /\ frame[q].sent[1].roll_count = Some(2)
        /\ \E m \in stock_movements :
              /\ m.id = frame[q].result.processed[1].movement_id
              /\ m.delta_qty_m < 0 /\ m.roll_count = Some(-2)

\* ------------------------------------------------------------------------
\* C24: an issue beyond the stock on hand
\* ------------------------------------------------------------------------
IssueReturned(p) ==
    /\ pc[p] = "ret"
    /\ frame[p].via \in {"issue", "issue_stock", "issue_batch",
                         "issue_stock_batch"}

\* No issue is refused: a single issue returns its movement, a batch
\* processes every entry.
IssuesAccepted ==
    \A p \in DOMAIN pc :
        IssueReturned(p) =>
            \/ frame[p].result.kind = "dict"
            \/ /\ frame[p].result.kind = "batch"
               /\ frame[p].result.failed = <<>>
               /\ Len(frame[p].result.processed) = frame[p].n

\* The commit of an issue of more than the item holds.
OverdrawCommits(p) ==
    /\ CreateCommits(p)
    /\ frame[p].movement_type = "ISSUE"
    /\ OnHandM(stock_balances, frame[p].variant_id) + frame[p].qty < 0

OverdrawRecorded(p) ==
    LET v == frame[p].variant_id
    IN /\ \E m \in stock_movements' \ stock_movements :
             /\ m.id = frame[p].movement_id /\ m.variant_id = v
             /\ m.delta_qty_m = frame[p].qty
       /\ OnHandM(stock_balances', v) = OnHandM(stock_balances, v) + frame[p].qty
       /\ OnHandM(stock_balances', v) < 0

\* C24: an ISSUE of more than the balance on hand is accepted: the movement
\* is recorded and the balance becomes negative.
NegativeStockAllowed ==
    /\ []IssuesAccepted
    /\ [][\A p \in DOMAIN pc : OverdrawCommits(p) => OverdrawRecorded(p)]_vars

\* Witness of C24: an issue of 30 on an item that held nothing has returned
\* and the item's balance is -30.
NegativeStockAllowedWitness ==
    \E p \in DOMAIN pc :
        /\ IssueReturned(p) /\ frame[p].result.kind = "dict"
        /\ frame[p].result.on_hand_m_after = -30
        /\ Cardinality(stock_movements) = 1
        /\ OnHandM(stock_balances, 1) = -30

\* ------------------------------------------------------------------------
\* Movement history: list_movements (routes/movements.py) and the
\* repository's search_movements
\* ------------------------------------------------------------------------

\* Time: a timestamp is a number of ticks, TicksPerDay of them in a day, the
\* first being the day's 00:00:00.
TicksPerDay == 2
FirstDay == 16
LastDay == 18
Days == FirstDay..LastDay
StartOfDay(d) == d * TicksPerDay
DayOf(ts) == ts \div TicksPerDay
Timestamps == {StartOfDay(d) + k : d \in Days, k \in 0..(TicksPerDay - 1)}

\* The movement history an earlier run left behind: up to MaxSeedRows
\* movements of item 1, at any time of the days, some cancelled.
HistoryRowChoices == [ts : Timestamps, is_cancelled : BOOLEAN]

HistoryRow(id, c) ==
    [id |-> id, variant_id |-> 1, movement_type |-> "RECEIPT",
     delta_qty_m |-> 2, original_qty |-> 2, original_uom |-> "m",
     roll_count |-> NULL, created_at |-> Now, ts |-> c.ts,
     is_cancelled |-> c.is_cancelled,
     cancelled_at |-> IF c.is_cancelled THEN Some("now") ELSE NULL]

SearchCallers == {1}

SearchInit ==
    /\ fabric_variants = InitialVariants
    /\ \E n \in 0..MaxSeedRows :
          \E f \in [1..n -> HistoryRowChoices] :
              /\ stock_movements = {HistoryRow(k, f[k]) : k \in 1..n}
              /\ stock_movements_id_seq = n
    /\ stock_balances = LedgerBalances(stock_movements)
    /\ migrations = AllMigrations
    /\ tx = [p \in SearchCallers |-> NoTx]
    /\ pc = [p \in SearchCallers |-> "idle"]
    /\ frame = [p \in SearchCallers |-> NoFrame]
    /\ calls = 0
    /\ cancel_log = <<>>
    /\ last_create = NULL
    /\ McpInit

\* The query parameters of GET /movements a client sends; a parameter left
\* out is NULL.  limit is between 1 and 100, offset is at least 0.
HistoryQueries ==
    [date_from : {NULL, Some(17)}, date_to : {NULL, Some(17), Some(18)},
     include_cancelled : {NULL, Some(TRUE), Some(FALSE)},
     limit : {NULL, Some(1)}, offset : {NULL, Some(1)}]

\* Mutant of IncludeCancelledParam: cancelled movements are shown unless the
\* client asks otherwise.
IncludeCancelledParamShown(x) == IF IsNull(x) THEN TRUE ELSE Val(x)

\* include_cancelled: bool = Query(False, ...)
IncludeCancelledParam(x) == IF IsNull(x) THEN FALSE ELSE Val(x)

\* limit: int = Query(20, ge=1, le=100)
LimitParam(x) == IF IsNull(x) THEN 20 ELSE Val(x)

\* offset: int = Query(0, ge=0)
OffsetParam(x) == IF IsNull(x) THEN 0 ELSE Val(x)

\* The inclusive lower bound of the date range.
LowerBound(date_from) == StartOfDay(date_from)

\* Mutant of UpperBound: the last day of the range is cut off at its
\* 00:00:00.
UpperBoundSameDay(date_to) == StartOfDay(date_to)

\* The exclusive upper bound of the date range: a range that ends on a day
\* is expressed as ending before the next day's 00:00:00.
UpperBound(date_to) == StartOfDay(date_to + 1)

\* The filters, intersected with AND.
MatchesFilters(m, f) ==
    /\ f.include_cancelled \/ ~m.is_cancelled
    /\ IsNull(f.date_from) \/ m.ts >= LowerBound(Val(f.date_from))
    /\ IsNull(f.date_to) \/ m.ts < UpperBound(Val(f.date_to))

\* The rows in the default order, timestamp descending (the later id first
\* among equal timestamps).
Latest(S) ==
    CHOOSE m \in S : \A k \in S : k.ts < m.ts \/ (k.ts = m.ts /\ k.id <= m.id)

RECURSIVE SortByTsDesc(_)
SortByTsDesc(S) ==
    IF S = {} THEN <<>>
    ELSE <<Latest(S)>> \o SortByTsDesc(S \ {Latest(S)})

\* LIMIT limit OFFSET offset
Page(rows, limit, offset) ==
    IF offset >= Len(rows) THEN <<>>
    ELSE SubSeq(rows, offset + 1,
                IF offset + limit > Len(rows) THEN Len(rows) ELSE offset + limit)

\* search_movements(filters, pagination, sort) -> (items, total)
search_movements(M, f) ==
    LET matching == {m \in M : MatchesFilters(m, f)}
    IN [kind |-> "page",
        items |-> Page(SortByTsDesc(matching), f.limit, f.offset),
        total |-> Cardinality(matching),
        limit |-> f.limit, offset |-> f.offset]

\* GET /movements: the parameters with their defaults are passed to
\* repo.search_movements.
list_movements_call(p) ==
    /\ CanCall(p, MaxCalls)
    /\ \E query \in HistoryQueries :
          frame' = [frame EXCEPT ![p] =
                      [NoFrame EXCEPT
                         !.op = "list_movements", !.via = "list_movements",
                         !.sent = <<query>>,
                         !.items = <<[date_from |-> query.date_from,
                                      date_to |-> query.date_to,
                                      include_cancelled |->
                                          IncludeCancelledParam(query.include_cancelled),
                                      limit |-> LimitParam(query.limit),
                                      offset |-> OffsetParam(query.offset)]>>]]
    /\ pc' = [pc EXCEPT ![p] = "search_movements"]
    /\ calls' = calls + 1
    /\ UNCHANGED <<dbVars, stock_movements_id_seq, tx, cancel_log, last_create>>
    /\ UNCHANGED mcpVars

\* repo.search_movements reads the committed rows; the route returns items,
\* total, limit and offset.
list_movements_return(p) ==
    /\ pc[p] = "search_movements"
    /\ frame' = [frame EXCEPT ![p].result =
                    search_movements(stock_movements, frame[p].items[1])]
    /\ pc' = [pc EXCEPT ![p] = "ret"]
    /\ UNCHANGED <<dbVars, stock_movements_id_seq, tx, calls, cancel_log,
                   last_create>>
    /\ UNCHANGED mcpVars

SearchNext ==
    \E p \in SearchCallers :
        \/ list_movements_call(p)
        \/ list_movements_return(p)

SpecSearch == SearchInit /\ [][SearchNext]_vars

\* ------------------------------------------------------------------------
\* C25, C26: what a returned history page holds
\* ------------------------------------------------------------------------
SearchReturned(p) == frame[p].op = "list_movements" /\ pc[p] = "ret"

Query(p) == frame[p].sent[1]

PageItems(p) == {frame[p].result.items[k] : k \in DOMAIN frame[p].result.items}

\* The page holds every match: nothing was skipped and the limit not reached.
WholePage(p) ==
    /\ IsNull(Query(p).offset)
    /\ frame[p].result.total <= frame[p].result.limit

\* The movements of the days the query names, cancelled or not.
OnQueriedDays(p) ==
    {m \in stock_movements :
        /\ IsNull(Query(p).date_from) \/ DayOf(m.ts) >= Val(Query(p).date_from)
        /\ IsNull(Query(p).date_to) \/ DayOf(m.ts) <= Val(Query(p).date_to)}

\* C25: without include_cancelled (default false) a search returns no
\* cancelled movement and does not count one in total; with include_cancelled
\* = true the cancelled movements matching the other filters are returned
\* and counted.
CancelledHiddenByDefault ==
    \A p \in DOMAIN pc :
        SearchReturned(p) =>
            LET shown == /\ ~IsNull(Query(p).include_cancelled)
                         /\ Val(Query(p).include_cancelled)
                expected == IF shown THEN OnQueriedDays(p)
                            ELSE {m \in OnQueriedDays(p) : ~m.is_cancelled}
            IN /\ frame[p].result.total = Cardinality(expected)
               /\ PageItems(p) \subseteq expected
               /\ WholePage(p) => PageItems(p) = expected

\* Witness of C25: a search without include_cancelled returned while a
\* cancelled and an active movement match its other filters.
CancelledHiddenByDefaultWitness ==
    \E p \in DOMAIN pc :
        /\ SearchReturned(p)
        /\ IsNull(Query(p).include_cancelled)
        /\ \E m \in OnQueriedDays(p) : m.is_cancelled
        /\ \E m \in OnQueriedDays(p) : ~m.is_cancelled
        /\ frame[p].result.total = 1

\* The movements a query with include_cancelled = true has to return: those
\* with lower <= t < upper.
InTimeRange(p) ==
    {m \in stock_movements :
        /\ IsNull(Query(p).date_from)
              \/ StartOfDay(Val(Query(p).date_from)) <= m.ts
        /\ IsNull(Query(p).date_to)
              \/ m.ts < StartOfDay(Val(Query(p).date_to) + 1)}

EmptyBatch(p) == InBatch(p) /\ frame[p].n = 0

\* An empty batch writes nothing and, once returned, has answered with two
\* empty lists.
EmptyBatchIdle ==
    \A p \in DOMAIN pc :
        EmptyBatch(p) =>
            /\ tx[p] = NoTx
            /\ ~frame[p].raised
            /\ pc[p] \in {"b_next", "ret"}
            /\ pc[p] = "b_next" => ENABLED b_commit(p)
            /\ pc[p] = "ret" =>
                  /\ frame[p].result.kind = "batch"
                  /\ frame[p].result.processed = <<>>
                  /\ frame[p].result.failed = <<>>

\* The steps of an empty batch leave every movement row and every balance
\* row as committed.
EmptyBatchStep ==
    \A p \in DOMAIN pc :
        (EmptyBatch(p) /\ pc[p] = "b_next" /\ pc'[p] # "b_next") =>
            /\ stock_movements' = stock_movements
            /\ stock_balances' = stock_balances
            /\ pc'[p] = "ret"

\* C27: create_movements_batch called with an empty items list returns an
\* empty processed list and an empty failed list without raising, and changes
\* no movement row and no balance row.
EmptyBatchReturnsEmpty == []EmptyBatchIdle /\ [][EmptyBatchStep]_vars

\* Witness of C27: an empty batch has returned while another caller was
\* between the insert of a movement and its commit.
EmptyBatchReturnsEmptyWitness ==
    \E p, q \in DOMAIN pc :
        /\ EmptyBatch(p) /\ pc[p] = "ret"
        /\ frame[p].result.kind = "batch"
        /\ tx[q].ins # {}

\* ------------------------------------------------------------------------
\* C28: balance-row locks of a batch
\* ------------------------------------------------------------------------

\* The items whose balance row p's open transaction has locked.
LockedItems(p) == {b.variant_id : b \in tx[p].bal}

\* A batch is at the start of an entry.
AtEntryStart(p) == InBatch(p) /\ pc[p] \in {"b_next", "b_lookup"}

\* C28 as claimed: no operation holds a balance-row lock on more than one
\* item at a time or across batch entries (the lock of one entry's balance
\* write is released before the next entry is processed), and no balance
\* write of a batch is caught in a lock cycle.  The code violates it:
\* create_movements_batch commits once, after the loop, so every entry's
\* lock is held until the whole batch ends.
NoLockAcrossEntries ==
    \A p \in DOMAIN pc :
        /\ Cardinality(LockedItems(p)) <= 1
        /\ AtEntryStart(p) => LockedItems(p) = {}
        /\ ~InDeadlock(p)

\* ------------------------------------------------------------------------
\* C29: how balance rows change
\* ------------------------------------------------------------------------

\* The movements of item v a step creates, and those it cancels.
CreatedInStep(v) ==
    {m \in stock_movements' :
        m.variant_id = v /\ MovementRows(stock_movements, m.id) = {}}

CancelledInStep(v) ==
    {m \in stock_movements :
        /\ m.variant_id = v /\ ~m.is_cancelled
        /\ \E k \in MovementRows(stock_movements', m.id) : k.is_cancelled}

\* C29 as claimed: every change to a balance row is an increment by the
\* deltas of the movements created or cancelled in the same transaction; no
\* code path sets a balance to an absolute value.  The code violates it:
\* the startup migrations reset the balance rows and set them to sums read
\* from stock_movements.
BalanceOnlyIncremented ==
    [][\A v \in VariantIds :
          OnHandM(stock_balances', v) - OnHandM(stock_balances, v)
              = SumDelta(CreatedInStep(v)) - SumDelta(CancelledInStep(v))]_vars

\* ------------------------------------------------------------------------
\* Natural-language queries (query_engine.py)
\* ------------------------------------------------------------------------
ALLOWED_TABLES ==
    {"fabrics", "fabric_aliases", "fabric_variants", "stock_movements",
     "stock_balances"}

FORBIDDEN_KEYWORDS ==
    {"INSERT", "UPDATE", "DELETE", "DROP", "TRUNCATE", "ALTER", "CREATE",
     "GRANT", "REVOKE", "EXECUTE", "EXEC", "COPY", "LOAD", "VACUUM",
     "REINDEX", "CLUSTER", "ANALYZE", "EXPLAIN"}

\* The statements the language model can answer with: the text as its words
\* (keywords in upper case, names in lower case), the tables the statement
\* reads when the server runs it, and whether it writes balance rows.
Statements ==
    {[tokens |-> <<"SELECT", "SUM", "(", "on_hand_m", ")", "FROM",
                   "stock_balances">>,
      reads |-> {"stock_balances"}, writes |-> FALSE],
     [tokens |-> <<"SELECT", "*", "FROM", "stock_movements", "JOIN",
                   "fabric_variants", "LIMIT", "5", ";">>,
      reads |-> {"stock_movements", "fabric_variants"}, writes |-> FALSE],
     [tokens |-> <<"UPDATE", "stock_balances", "SET", "on_hand_m", "=", "0">>,
      reads |-> {"stock_balances"}, writes |-> TRUE],
     [tokens |-> <<"SELECT", "1", ";", "UPDATE", "stock_balances", "SET",
                   "on_hand_m", "=", "0">>,
      reads |-> {"stock_balances"}, writes |-> TRUE],
     [tokens |-> <<"SELECT", "1", ";", "SELECT", "2">>,
      reads |-> {}, writes |-> FALSE],
     [tokens |-> <<"WITH", "z", "AS", "(", "UPDATE", "stock_balances", "SET",
                   "on_hand_m", "=", "0", "RETURNING", "1", ")", "SELECT",
                   "*", "FROM", "z">>,
      reads |-> {"stock_balances"}, writes |-> TRUE],
     [tokens |-> <<"SELECT", "*", "FROM", "stock_balances", "FOR", "UPDATE">>,
      reads |-> {"stock_balances"}, writes |-> FALSE],
     [tokens |-> <<"SELECT", "*", "FROM", "migrations">>,
      reads |-> {"migrations"}, writes |-> FALSE],
     [tokens |-> <<"SELECT", "*", "FROM", "fabrics", ",", "migrations">>,
      reads |-> {"fabrics", "migrations"}, writes |-> FALSE]}

\* What generate_sql raises InvalidQueryError for: no API key, an answer
\* "ERROR: ...", an answer without the separator, an API error.
NoStatement == [tokens |-> <<>>, reads |-> {}, writes |-> FALSE]

\* The words a word of the pattern [a-zA-Z_][a-zA-Z0-9_]* cannot start with.
Punctuation == {"(", ")", ",", ";", "*", "="}

\* sql_upper.strip().startswith("SELECT")
StartsWithSelect(tokens) == Len(tokens) > 0 /\ tokens[1] = "SELECT"

\* re.search(r'\b' + keyword + r'\b', sql_upper) for a forbidden keyword
HasForbiddenKeyword(tokens) ==
    \E k \in DOMAIN tokens : tokens[k] \in FORBIDDEN_KEYWORDS

\* A semicolon other than at the very end.
MultipleStatements(tokens) ==
    \E k \in DOMAIN tokens : tokens[k] = ";" /\ k < Len(tokens)

\* sql.strip().rstrip(";")
StripSemicolon(tokens) ==
    IF Len(tokens) > 0 /\ tokens[Len(tokens)] = ";"
    THEN SubSeq(tokens, 1, Len(tokens) - 1) ELSE tokens

\* re.findall(r'\b(?:FROM|JOIN)\s+([a-zA-Z_][a-zA-Z0-9_]*)', sql_upper): the
\* word after each FROM and each JOIN.
TablesFound(tokens) ==
    {tokens[k + 1] : k \in {j \in DOMAIN tokens :
                               /\ j < Len(tokens)
                               /\ tokens[j] \in {"FROM", "JOIN"}
                               /\ tokens[j + 1] \notin Punctuation}}

\* Add LIMIT if not present.
WithLimit(tokens) ==
    IF \E k \in DOMAIN tokens : tokens[k] = "LIMIT" THEN tokens
    ELSE tokens \o <<"LIMIT", "1000">>

\* validate_sql: the statement to execute, or UnsafeQueryError.
validate_sql(sql) ==
    IF ~StartsWithSelect(sql.tokens) THEN [ok |-> FALSE, sql |-> sql]
    ELSE IF HasForbiddenKeyword(sql.tokens) THEN [ok |-> FALSE, sql |-> sql]
    ELSE IF MultipleStatements(sql.tokens) THEN [ok |-> FALSE, sql |-> sql]
    ELSE IF ~(TablesFound(StripSemicolon(sql.tokens)) \subseteq ALLOWED_TABLES)
    THEN [ok |-> FALSE, sql |-> sql]
    ELSE [ok |-> TRUE,
          sql |-> [sql EXCEPT !.tokens = WithLimit(StripSemicolon(@))]]

\* query(question)
query_call(p) ==
    /\ CanCall(p, MaxCalls)
    /\ frame' = [frame EXCEPT ![p] =
                   [NoFrame EXCEPT !.op = "query", !.via = "query"]]
    /\ pc' = [pc EXCEPT ![p] = "generate_sql"]
    /\ calls' = calls + 1
    /\ UNCHANGED <<dbVars, stock_movements_id_seq, tx, cancel_log, last_create>>
    /\ UNCHANGED mcpVars

\* Step 1, generate_sql: the answer of the language model, any statement or
\* none.
q_generate(p) ==
    /\ pc[p] = "generate_sql"
    /\ \E sql \in Statements \cup {NoStatement} :
          IF sql = NoStatement
          THEN /\ frame' = [frame EXCEPT ![p].result =
                              [kind |-> "error", code |-> "INVALID_QUERY"]]
               /\ pc' = [pc EXCEPT ![p] = "ret"]
          ELSE /\ frame' = [frame EXCEPT ![p].sent = <<sql>>]
               /\ pc' = [pc EXCEPT ![p] = "validate_sql"]
    /\ UNCHANGED <<dbVars, stock_movements_id_seq, tx, calls, cancel_log,
                   last_create>>
    /\ UNCHANGED mcpVars

\* Step 2, validate_sql.
q_validate(p) ==
    /\ pc[p] = "validate_sql"
    /\ LET v == validate_sql(frame[p].sent[1])
       IN IF v.ok
          THEN /\ frame' = [frame EXCEPT ![p].items = <<v.sql>>]
               /\ pc' = [pc EXCEPT ![p] = "execute_query"]
          ELSE /\ frame' = [frame EXCEPT ![p].result =
                              [kind |-> "error", code |-> "UNSAFE_QUERY"]]
               /\ pc' = [pc EXCEPT ![p] = "ret"]
    /\ UNCHANGED <<dbVars, stock_movements_id_seq, tx, calls, cancel_log,
                   last_create>>
    /\ UNCHANGED mcpVars

\* The balance rows an executed statement writes in its transaction.
StatementWrites(sql, B) ==
    IF sql.writes THEN {[b EXCEPT !.on_hand_m = 0] : b \in B} ELSE {}

\* Step 3, execute_query: SET LOCAL statement_timeout and the statement, on
\* a connection of its own.  The statement returns rows, fails or is
\* cancelled by the timeout; an exception leaves get_conn, which returns the
\* connection to the pool and so rolls the transaction back.
q_execute(p) ==
    /\ pc[p] = "execute_query"
    /\ \E outcome \in {"rows", "no rows", "failed", "timeout"} :
          IF outcome \in {"rows", "no rows"}
          THEN /\ \A v \in VariantIds :
                     StatementWrites(frame[p].items[1], BalanceRows(stock_balances, v)) # {}
                         => BalLockFree(p, v)
               /\ tx' = [tx EXCEPT ![p].status = "INTRANS",
                                   ![p].bal = StatementWrites(frame[p].items[1],
                                                              stock_balances)]
               /\ frame' = [frame EXCEPT ![p].result =
                              [kind |-> "fetched", rows |-> outcome]]
               /\ pc' = [pc EXCEPT ![p] = "rollback"]
               /\ UNCHANGED dbVars
          ELSE /\ stock_movements' = PutConnMovements(tx[p])
               /\ stock_balances' = PutConnBalances(tx[p])
               /\ tx' = [tx EXCEPT ![p] = NoTx]
               /\ frame' = [frame EXCEPT ![p].result =
                              [kind |-> "error",
                               code |-> IF outcome = "timeout" THEN "TIMEOUT"
                                        ELSE "INTERNAL_ERROR"]]
               /\ pc' = [pc EXCEPT ![p] = "ret"]
               /\ UNCHANGED <<fabric_variants, migrations>>
    /\ UNCHANGED <<stock_movements_id_seq, calls, cancel_log, last_create>>
    /\ UNCHANGED mcpVars

\* conn.rollback() and the answer: the rows, or NO_RESULTS without rows.
q_rollback(p) ==
    /\ pc[p] = "rollback"
    /\ stock_movements' = PutConnMovements(tx[p])
    /\ stock_balances' = PutConnBalances(tx[p])
    /\ tx' = [tx EXCEPT ![p] = NoTx]
    /\ frame' = [frame EXCEPT ![p].result =
                    IF frame[p].result.rows = "rows"
                    THEN [kind |-> "success"]
                    ELSE [kind |-> "error", code |-> "NO_RESULTS"]]
    /\ pc' = [pc EXCEPT ![p] = "ret"]
    /\ UNCHANGED <<fabric_variants, migrations, stock_movements_id_seq, calls,
                   cancel_log, last_create>>
    /\ UNCHANGED mcpVars

\* Queries beside callers that write the ledger.
QueryCreateInputs ==
    [variants |-> {1}, qtys |-> {2}, uoms |-> {"m"}, rolls |-> {NULL},
     types |-> MovementTypes, max_calls |-> MaxCalls]

QueryNext ==
    \E p \in Procs :
        \/ query_call(p)
        \/ q_generate(p)
        \/ q_validate(p)
        \/ q_execute(p)
        \/ q_rollback(p)
        \/ create_movement_call(p, QueryCreateInputs)
        \/ cm_check(p)
        \/ cm_insert(p)
        \/ cm_upsert(p)
        \/ cm_select(p)
        \/ cm_commit(p)

SpecQuery == Init /\ [][QueryNext]_vars

\* ------------------------------------------------------------------------
\* C30: a query changes nothing
\* ------------------------------------------------------------------------
InQuery(p) == frame[p].op = "query"

\* The statement p's query has sent to the server.
Executing(p) == InQuery(p) /\ pc[p] \in {"execute_query", "rollback"}

\* No step of a query changes a committed movement or balance row.
QueryChangesNoRow ==
    \A p \in DOMAIN pc :
        (InQuery(p) /\ pc'[p] # pc[p]) =>
            /\ stock_movements' = stock_movements
            /\ stock_balances' = stock_balances

\* What is executed is one SELECT statement that writes nothing and reads
\* whitelisted tables only.
ExecutesWhitelistedSelect ==
    \A p \in DOMAIN pc :
        Executing(p) =>
            LET sql == frame[p].items[1]
            IN /\ StartsWithSelect(sql.tokens)
               /\ ~MultipleStatements(sql.tokens)
               /\ ~sql.writes
               /\ sql.reads \subseteq ALLOWED_TABLES

\* C30 as claimed: a natural-language query never changes a movement or
\* balance row, whether it succeeds, is rejected, fails or times out: only a
\* single SELECT statement over whitelisted tables is executed and its
\* transaction is never committed.  The code violates the part about the
\* tables: validate_sql looks only at the word after FROM or JOIN.
QueryReadOnlyWhitelisted ==
    /\ []ExecutesWhitelistedSelect
    /\ [][QueryChangesNoRow]_vars

\* ------------------------------------------------------------------------
\* The enumeration constraints on movement_type and original_uom
\* ------------------------------------------------------------------------

\* movement_type and uom are plain strings for the repository: a caller can
\* pass a type and a unit outside the lists of the DDL.
AnyMovementTypes == AllMovementTypes \cup {"TRANSFER"}
AnyUoms == ValidUoms \cup {"yd"}

CheckedCreateInputs ==
    [variants |-> {1, NumVariants}, qtys |-> {2}, uoms |-> AnyUoms,
     rolls |-> {NULL}, types |-> AnyMovementTypes, max_calls |-> MaxCalls]

CheckedBatchInputs ==
    [variants |-> InitialVariants, qtys |-> {2}, uoms |-> Uoms,
     rolls |-> {NULL}, types |-> {"RECEIPT", "TRANSFER"},
     max_calls |-> MaxCalls]

ChecksNext ==
    \E p \in Procs :
        \/ create_movement_call(p, CheckedCreateInputs)
        \/ cm_check(p)
        \/ cm_insert(p)
        \/ cm_upsert(p)
        \/ cm_select(p)
        \/ cm_commit(p)
        \/ cm_storage_failure(p)
        \/ create_movements_batch_call(p, CheckedBatchInputs)
        \/ b_next(p, CheckedBatchInputs)
        \/ b_lookup(p)
        \/ b_prev(p)
        \/ b_insert(p)
        \/ b_upsert(p)
        \/ b_deadlock(p)
        \/ b_select(p)
        \/ b_commit(p)

SpecChecks == Init /\ [][ChecksNext]_vars

\* Every movement row, committed or written by an open transaction, has a
\* listed type and a listed unit.
StoredRowsListed ==
    \A m \in stock_movements \cup UNION {tx[p].ins : p \in DOMAIN tx} :
        /\ m.movement_type \in {"RECEIPT", "ISSUE", "ADJUST"}
        /\ m.original_uom \in {"m", "roll"}

\* A create_movement called with a type or a unit outside the lists.
UnlistedCreate(p) ==
    /\ InCreate(p)
    /\ \/ frame[p].movement_type \notin {"RECEIPT", "ISSUE", "ADJUST"}
       \/ frame[p].uom \notin {"m", "roll"}

\* No step of such a call changes a committed movement or balance, and the
\* call hands back no movement.
UnlistedCreateStep ==
    \A p \in DOMAIN pc :
        (UnlistedCreate(p) /\ pc'[p] # pc[p]) =>
            /\ stock_movements' = stock_movements
            /\ stock_balances' = stock_balances
            /\ frame'[p].result.kind # "dict"
            /\ pc'[p] = "ret" =>
                  /\ frame'[p].result.kind \in {"raised", "None"}
                  /\ tx'[p] = NoTx

\* C31: every stored movement has movement_type in {RECEIPT, ISSUE, ADJUST}
\* and original_uom in {m, roll}; a create_movement call with any other
\* type or unit fails and leaves all movements and balances unchanged.
EnumerationsEnforced == []StoredRowsListed /\ [][UnlistedCreateStep]_vars

\* Witness of C31: on an existing item, one create_movement with an unlisted
\* type and one with an unlisted unit were both rejected by the INSERT, and
\* the ledger still has only the row it started with.
EnumerationsEnforcedWitness ==
    \E p, q \in DOMAIN pc :
        /\ UnlistedCreate(p) /\ pc[p] = "ret"
        /\ frame[p].result.kind = "raised"
        /\ frame[p].movement_type = "TRANSFER" /\ frame[p].uom = "m"
        /\ frame[p].variant_id \in fabric_variants
        /\ UnlistedCreate(q) /\ pc[q] = "ret"
        /\ frame[q].result.kind = "raised"
        /\ frame[q].movement_type = "RECEIPT" /\ frame[q].uom = "yd"
        /\ frame[q].variant_id \in fabric_variants
        /\ stock_movements = SeedMovements
        /\ stock_balances = SeedBalances

\* ------------------------------------------------------------------------
\* Batch receipts: which entries are answered where, and in which order
\* (routes/movements.py receive_batch, mcp.py receive_stock_batch)
\* ------------------------------------------------------------------------
MaxReceiveBatch == 3

\* The entries a client sends: an existing item or one that no row matches,
\* two quantities; the tool's items carry the unit as a plain string.
ReceiveItems ==
    [variant_id : {1, 2, NumVariants}, qty : {2, 5}, uom : {"m"},
     roll_count : {NULL}]

ToolItems ==
    ReceiveItems \cup [variant_id : {1}, qty : {2}, uom : {"yd"},
                       roll_count : {NULL}]

ReceiveBatches(entries) ==
    UNION {[1..n -> entries] : n \in 1..MaxReceiveBatch}

\* One client sends one batch; the other calls are single receipts.
BatchCallers == {1}

\* The call of create_movements_batch a batch receipt makes for the items
\* the client sent.
ReceiveBatch(p, via, items) ==
    /\ p \in BatchCallers
    /\ pc[p] = "idle"
    /\ frame' = [frame EXCEPT ![p] =
                   [NoFrame EXCEPT
                      !.op = "create_movements_batch", !.via = via,
                      !.sent = items, !.items = items, !.n = Len(items),
                      !.i = 1, !.movement_type = "RECEIPT"]]
    /\ pc' = [pc EXCEPT ![p] = "b_next"]
    /\ calls' = calls + 1
    /\ UNCHANGED <<dbVars, stock_movements_id_seq, tx, cancel_log, last_create>>
    /\ UNCHANGED mcpVars

\* POST /movements/receive/batch
receive_batch(p) ==
    /\ CanCall(p, MaxCalls)
    /\ \E items \in ReceiveBatches(ReceiveItems) :
          ReceiveBatch(p, "receive_batch", items)

\* call_tool, name == "receive_stock_batch"
receive_stock_batch(p) ==
    /\ CanCall(p, MaxCalls)
    /\ \E items \in ReceiveBatches(ToolItems) :
          ReceiveBatch(p, "receive_stock_batch", items)

\* "summary" of the response: len(batch.items), len(processed), len(failed).
Summary(items, processed, failed) ==
    [total |-> Len(items), processed |-> Len(processed),
     failed |-> Len(failed)]

\* Another writer of the ledger: single receipts on the first item.
WriterInputs ==
    [variants |-> {1}, qtys |-> {2}, uoms |-> {"m"}, rolls |-> {NULL},
     types |-> {"RECEIPT"}, max_calls |-> MaxCalls]

ReceiveNext ==
    \E p \in Procs :
        \/ receive_batch(p)
        \/ receive_stock_batch(p)
        \/ b_item(p)
        \/ b_lookup(p)
        \/ b_prev(p)
        \/ b_insert(p)
        \/ b_upsert(p)
        \/ b_select(p)
        \/ b_commit(p)
        \/ create_movement_call(p, WriterInputs)
        \/ cm_check(p)
        \/ cm_insert(p)
        \/ cm_upsert(p)
        \/ cm_select(p)
        \/ cm_commit(p)

SpecReceive == Init /\ [][ReceiveNext]_vars

\* An answered entry and the input entry it came from name the same item
\* and quantity.
SameEntry(answered, item) ==
    answered.variant_id = item.variant_id /\ answered.qty = item.qty

\* processed and failed are two subsequences of items that share no
\* position and together cover every position: each entry is answered in
\* exactly one list, and each list keeps the input order.
RECURSIVE Interleaves(_, _, _)
Interleaves(items, processed, failed) ==
    IF items = <<>> THEN processed = <<>> /\ failed = <<>>
    ELSE \/ /\ processed # <<>>
            /\ SameEntry(Head(processed), Head(items))
            /\ Interleaves(Tail(items), Tail(processed), failed)
         \/ /\ failed # <<>>
            /\ SameEntry(Head(failed), Head(items))
            /\ Interleaves(Tail(items), processed, Tail(failed))

ReceiveReturned(p) ==
    BatchReturned(p) /\ frame[p].via \in {"receive_batch", "receive_stock_batch"}

\* While the loop runs, the entries passed so far are each in one list.
EntriesAnsweredOnce ==
    \A p \in DOMAIN pc :
        (InBatch(p) /\ frame[p].sent # <<>>) =>
            /\ Len(frame[p].processed) + Len(frame[p].failed) = frame[p].i - 1
            /\ Interleaves(SubSeq(frame[p].sent, 1, frame[p].i - 1),
                           frame[p].processed, frame[p].failed)

\* The answer of a returned call.
AnswerPartitionsInput ==
    \A p \in DOMAIN pc :
        ReceiveReturned(p) =>
            LET r == frame[p].result
                summary == Summary(frame[p].sent, r.processed, r.failed)
            IN /\ Interleaves(frame[p].sent, r.processed, r.failed)
               /\ summary.total = summary.processed + summary.failed

\* Three entries, the second naming an item that no row matches, the other
\* two accepted by the storage.
SecondOfThreeMissing(p) ==
    /\ ReceiveReturned(p)
    /\ Len(frame[p].sent) = 3
    /\ frame[p].sent[2].variant_id \notin fabric_variants
    /\ ValidEntry(frame[p].sent[1])
    /\ ValidEntry(frame[p].sent[3])

ScenarioC ==
    \A p \in DOMAIN pc :
        SecondOfThreeMissing(p) =>
            LET r == frame[p].result
                summary == Summary(frame[p].sent, r.processed, r.failed)
            IN /\ Len(r.processed) = 2
               /\ SameEntry(r.processed[1], frame[p].sent[1])
               /\ SameEntry(r.processed[2], frame[p].sent[3])
               /\ Len(r.failed) = 1
               /\ SameEntry(r.failed[1], frame[p].sent[2])
               /\ summary = [total |-> 3, processed |-> 2, failed |-> 1]

\* C32: for every create_movements_batch call each input entry appears in
\* exactly one of processed and failed and each list preserves input order,
\* so summary.total = summary.processed + summary.failed; with 3 entries of
\* which entry 2 is unresolvable, processed holds entries 1 and 3 and failed
\* holds entry 2.
BatchAnswerPartition ==
    EntriesAnsweredOnce /\ AnswerPartitionsInput /\ ScenarioC

\* Witness of C32: a returned batch of three entries with different
\* quantities in the first and the third, the second unresolvable; and a
\* returned batch in which a storage exception put entries in failed.
BatchAnswerPartitionWitness ==
    \E p \in DOMAIN pc :
        /\ SecondOfThreeMissing(p)
        /\ frame[p].sent[1].qty = 5
        /\ frame[p].sent[3].qty = 2
        /\ Len(frame[p].result.processed) = 2
        /\ frame[p].result.processed[1].qty = 5
        /\ Len(frame[p].result.failed) = 1

\* A second witness state of C32: a storage exception put two of three
\* entries in failed after the first was processed.
BatchAnswerPartitionExceptionWitness ==
    \E p \in DOMAIN pc :
        /\ ReceiveReturned(p)
        /\ frame[p].raised
        /\ Len(frame[p].sent) = 3
        /\ Len(frame[p].result.processed) = 1
        /\ Len(frame[p].result.failed) = 2

\* ------------------------------------------------------------------------
\* C33: the entries of a batch are applied one after the other
\* ------------------------------------------------------------------------

\* Positions j < k of processed that are consecutive for their item: both
\* entries are on the same item and no processed entry between them is.
ConsecutiveOnItem(processed, j, k) ==
    /\ j < k
    /\ processed[j].variant_id = processed[k].variant_id
    /\ \A l \in (j + 1)..(k - 1) :
          processed[l].variant_id # processed[j].variant_id

\* The processed entries of a running or returned call chain: the later
\* entry starts from the balance the earlier one left.
ProcessedChain(processed) ==
    \A j, k \in 1..Len(processed) :
        ConsecutiveOnItem(processed, j, k) =>
            processed[k].previous_balance = processed[j].new_balance

\* C33: within one create_movements_batch call the entries are applied one
\* at a time in input order: for two consecutive processed entries on the
\* same item the later entry's previous_balance equals the earlier entry's
\* new_balance.  (The batch holds the item's row lock from its first write
\* to its commit, so no other writer comes between two of its entries.)
EntriesAppliedInOrder ==
    \A p \in DOMAIN pc : InBatch(p) => ProcessedChain(frame[p].processed)

\* Witness of C33: a returned batch processed three entries on one item,
\* each starting from the balance the one before left (7, then 9), while
\* another writer's receipt on that item committed around them.
EntriesAppliedInOrderWitness ==
    \E p \in DOMAIN pc :
        /\ BatchReturned(p)
        /\ Len(frame[p].processed) = 3
        /\ frame[p].processed[1].qty = 5
        /\ frame[p].processed[1].new_balance = frame[p].processed[2].previous_balance
        /\ frame[p].processed[2].qty = 2
        /\ frame[p].processed[2].new_balance = frame[p].processed[3].previous_balance
        /\ frame[p].processed[3].new_balance
              = frame[p].processed[1].new_balance + 7
        /\ \E q \in DOMAIN pc :
              InCreate(q) /\ frame[q].result.kind = "dict"

\* ------------------------------------------------------------------------
\* C34: create_variants_batch under a fabric code that matches no fabric
\* ------------------------------------------------------------------------
MissingFabricCall(p) ==
    /\ frame[p].op = "create_variants_batch"
    /\ frame[p].fabric_code \notin fabrics

\* Such a call never enters its loop, writes nothing in its transaction and
\* returns the triple (None, [], []).
MissingFabricAnswer ==
    \A p \in DOMAIN pc :
        MissingFabricCall(p) =>
            /\ pc[p] \in {"v_fabric", "ret"}
            /\ tx[p].var = {}
            /\ frame[p].items = <<>>
            /\ pc[p] = "ret" =>
                  frame[p].result = [kind |-> "variants", fabric_id |-> NULL,
                                     created |-> <<>>, failed |-> <<>>]

\* No step of such a call creates a variant.
MissingFabricStep ==
    \A p \in DOMAIN pc :
        (MissingFabricCall(p) /\ pc'[p] # pc[p]) =>
            fabric_variants' = fabric_variants

\* C34: create_variants_batch for a fabric_code that matches no fabric
\* returns (None, [], []) and creates no variant, whatever the variants list
\* contains.
MissingFabricCreatesNothing ==
    []MissingFabricAnswer /\ [][MissingFabricStep]_vars

\* Witness of C34: a call with a non-empty variants list under a fabric code
\* without a fabric has returned, and the variants are the initial ones.
MissingFabricCreatesNothingWitness ==
    \E p \in DOMAIN pc :
        /\ MissingFabricCall(p)
        /\ pc[p] = "ret"
        /\ frame[p].n > 0
        /\ IsNull(frame[p].result.fabric_id)
        /\ fabric_variants = InitialVariants

\* ------------------------------------------------------------------------
\* C35: the balances the cleanup migration leaves
\* ------------------------------------------------------------------------

\* The step in which caller p commits the cleanup migration.
CleanupCommits(p) == pc[p] = "m_cleanup" /\ pc'[p] = "t_check"

\* The non-cancelled movements of item v in table T.
Remaining(T, v) == {m \in T : m.variant_id = v /\ m.is_cancelled = FALSE}

\* The balance row agrees with the movements that remain.
RowMatchesLedger(b, T) ==
    /\ b.on_hand_m = SumDelta(Remaining(T, b.variant_id))
    /\ b.on_hand_rolls =
          SumRolls({m \in Remaining(T, b.variant_id) : ~IsNull(m.roll_count)})
    /\ Remaining(T, b.variant_id) = {} =>
          b.on_hand_m = 0 /\ b.on_hand_rolls = 0

CleanupLeavesLedgerSums ==
    \A p \in DOMAIN pc :
        CleanupCommits(p) =>
            /\ {b.variant_id : b \in stock_balances'}
                  = {b.variant_id : b \in stock_balances}
            /\ \A b \in stock_balances' : RowMatchesLedger(b, stock_movements')

\* C35: after _recalculate_balances has run in the cleanup migration,
\* following the deletion of movements, every existing balance row has
\* on_hand_m equal to the sum of delta_qty_m, and on_hand_rolls equal to the
\* sum of the non-null roll_count, over the item's remaining non-cancelled
\* movements, and both are 0 when no such movement remains.
RecalculatedFromLedger == [][CleanupLeavesLedgerSums]_vars

\* Witness of C35: the cleanup has committed; one balance row is 0 because
\* the deletion left its item without a movement, and another row kept the
\* sum of a remaining movement.
RecalculatedFromLedgerWitness ==
    /\ SanitizeMigration \in migrations
    /\ \E b \in stock_balances :
          /\ MovementsOf(stock_movements, b.variant_id) = {}
          /\ b.on_hand_m = 0 /\ b.on_hand_rolls = 0
    /\ \E b \in stock_balances :
          /\ Remaining(stock_movements, b.variant_id) # {}
          /\ b.on_hand_m > 0

\* ------------------------------------------------------------------------
\* C36: each data migration is committed once, with its row in migrations
\* ------------------------------------------------------------------------

\* The step in which caller p commits the targeted fix.
TargetedCommits(p) ==
    /\ pc[p] = "t_fix" /\ pc'[p] = "ret"
    /\ frame'[p].result.kind = "returned"

\* The step adds exactly the row name to the migrations table.
Records(name) ==
    name \notin migrations /\ migrations' = migrations \cup {name}

\* A migration's transaction commits only while its name is not recorded,
\* and the commit records it.
CommitRecordsName ==
    \A p \in DOMAIN pc :
        /\ CleanupCommits(p) => Records(SanitizeMigration)
        /\ TargetedCommits(p) => Records(TargetedMigration)

\* The data changes only in the commit of a migration, and a recorded
\* name stays recorded.
DataChangesWithName ==
    /\ migrations \subseteq migrations'
    /\ (<<fabric_variants, stock_movements, stock_balances>>' #
            <<fabric_variants, stock_movements, stock_balances>>)
          => \E p \in DOMAIN pc : CleanupCommits(p) \/ TargetedCommits(p)
    /\ migrations' # migrations
          => \E p \in DOMAIN pc : CleanupCommits(p) \/ TargetedCommits(p)

\* C36: each named data migration is one-time: over any number of init_db
\* calls, including two processes that start concurrently, the changes of
\* sanitize_codes_cleanup_v1 and of targeted_color_fixes_v1 are each
\* committed at most once, and always together with their row in the
\* migrations table.
MigrationsOneTime == [][CommitRecordsName /\ DataChangesWithName]_vars

\* Witness of C36: two processes both found the cleanup not yet recorded and
\* both ran it; one committed it and the other was refused by the key of
\* the migrations table.
MigrationsOneTimeWitness ==
    \E p, q \in DOMAIN pc :
        /\ p # q
        /\ frame[p].op = "init_db" /\ frame[q].op = "init_db"
        /\ SanitizeMigration \in migrations
        /\ pc[p] \in {"t_check", "t_fix", "ret"} /\ ~frame[p].raised
        /\ pc[q] = "ret" /\ frame[q].raised
        /\ tx[q] = NoTx

\* ------------------------------------------------------------------------
\* C40: the targeted fix after a normal return of run_migrations
\* ------------------------------------------------------------------------

\* init_db, and with it run_migrations, returned without an exception.
MigrationsReturned(p) ==
    /\ frame[p].op = "init_db"
    /\ pc[p] = "ret"
    /\ frame[p].result.kind = "returned"

\* C40 as claimed: after run_migrations returns normally,
\* targeted_color_fixes_v1 is recorded in the migrations table, also when
\* sanitize_codes_cleanup_v1 had already been completed by an earlier run.
\* The code violates it: with the cleanup recorded, run_migrations returns
\* before it reaches the call of _run_targeted_color_fixes.
TargetedRecordedOnReturn ==
    \A p \in DOMAIN pc :
        MigrationsReturned(p) => TargetedMigration \in migrations

\* ------------------------------------------------------------------------
\* MCP sessions (routes/mcp.py)
\*
\* One event loop runs the request handlers, the server tasks, the done
\* callbacks and the cleanup tasks; a step of the model is the run of one of
\* them from one suspension point to the next.
\* ------------------------------------------------------------------------

\* asyncio.Lock: acquire() returns at once when the lock is free and nobody
\* waits; otherwise the task queues and is woken in FIFO order by release().
LockAvailable == ~_session_lock.locked /\ _session_lock.waiters = <<>>

Woken(task) ==
    /\ ~_session_lock.locked
    /\ _session_lock.waiters # <<>>
    /\ Head(_session_lock.waiters) = task

Enqueued(task) ==
    [_session_lock EXCEPT !.waiters = Append(@, task)]

\* The lock as its new holder has it, and after the holder released it.
Held == [locked |-> TRUE,
         waiters |-> IF LockAvailable THEN <<>> ELSE Tail(_session_lock.waiters)]
Released(lock) == [lock EXCEPT !.locked = FALSE]

\* task.done()
Done(s) == session[s].server_task = "done"

\* The Mcp-Session-Id header of a POST: absent (0), an id the client made
\* up, or the id of a session created before.
Headers ==
    {0} \cup ClientIds
        \cup {session[s].session_id : s \in {x \in Requests :
                                                session[x].server_task # "none"}}

\* Mutant of GetOrCreate: the table is not consulted, every request
\* connects a new transport.
GetOrCreateNew(r, h) ==
    LET id == IF h = 0 THEN Uuid4(r) ELSE h
    IN /\ request' = [request EXCEPT ![r] =
                        [pc |-> "connect", header |-> h,
                         session_id |-> id, session |-> NoSession]]
       /\ _sessions' = [_sessions EXCEPT ![id] = NoSession]
       /\ _session_lock' = Held

\* get_or_create_session from the acquired lock to its first await: the id
\* is generated when absent; an entry whose server task is not done is
\* returned and handles the request; an entry whose task is done is deleted
\* and a new transport is connected.
GetOrCreate(r, h) ==
    LET id == IF h = 0 THEN Uuid4(r) ELSE h
        s == _sessions[id]
    IN IF s # NoSession /\ ~Done(s)
       THEN /\ request' = [request EXCEPT ![r] =
                             [pc |-> "handled", header |-> h,
                              session_id |-> id, session |-> s]]
            /\ _session_lock' = Released(Held)
            /\ UNCHANGED _sessions
       ELSE /\ request' = [request EXCEPT ![r] =
                             [pc |-> "connect", header |-> h,
                              session_id |-> id, session |-> NoSession]]
            /\ _sessions' = [_sessions EXCEPT ![id] = NoSession]
            /\ _session_lock' = Held

\* mcp_post_asgi: a POST arrives (the requests are numbered in the order of
\* their arrival) and calls get_or_create_session.
mcp_post_asgi(r) ==
    /\ request[r].pc = "idle"
    /\ \A q \in Requests : q < r => request[q].pc # "idle"
    /\ \E h \in Headers :
          IF LockAvailable
          THEN GetOrCreate(r, h)
          ELSE /\ request' = [request EXCEPT ![r].pc = "waiting",
                                             ![r].header = h]
               /\ _session_lock' = Enqueued(<<"request", r>>)
               /\ UNCHANGED _sessions
    /\ UNCHANGED <<session, cleanup_task, ledgerVars>>

\* async with _session_lock, for a request that had to wait.
get_or_create_session(r) ==
    /\ request[r].pc = "waiting"
    /\ Woken(<<"request", r>>)
    /\ GetOrCreate(r, request[r].header)
    /\ UNCHANGED <<session, cleanup_task, ledgerVars>>

\* After await connect_gen.__aenter__(): the server task is created, the
\* session registered, the done callback added, the lock released, and the
\* request handled by the new session.
create_session(r) ==
    /\ request[r].pc = "connect"
    /\ session' = [session EXCEPT ![r] =
                     [session_id |-> request[r].session_id,
                      server_task |-> "running"]]
    /\ _sessions' = [_sessions EXCEPT ![request[r].session_id] = r]
    /\ _session_lock' = Released(_session_lock)
    /\ request' = [request EXCEPT ![r].pc = "handled", ![r].session = r]
    /\ UNCHANGED <<cleanup_task, ledgerVars>>

\* mcp_server.run returns or raises: the task is done and the event loop
\* schedules its done callback.
server_task_ends(s) ==
    /\ session[s].server_task = "running"
    /\ session' = [session EXCEPT ![s].server_task = "done"]
    /\ cleanup_task' = [cleanup_task EXCEPT ![s].pc = "callback"]
    /\ UNCHANGED <<_sessions, _session_lock, request, ledgerVars>>

\* A cancelled server task runs into its CancelledError and is done.
server_task_cancelled(s) ==
    /\ session[s].server_task = "cancelling"
    /\ session' = [session EXCEPT ![s].server_task = "done"]
    /\ cleanup_task' = [cleanup_task EXCEPT ![s].pc = "callback"]
    /\ UNCHANGED <<_sessions, _session_lock, request, ledgerVars>>

\* Mutant of cleanup: the callback creates no task.
cleanup_no_task(s) ==
    /\ cleanup_task[s].pc = "callback"
    /\ cleanup_task' = [cleanup_task EXCEPT ![s].pc = "finished"]
    /\ UNCHANGED <<_sessions, _session_lock, session, request, ledgerVars>>

\* def cleanup(task): asyncio.create_task(_cleanup_session(session_id))
cleanup(s) ==
    /\ cleanup_task[s].pc = "callback"
    /\ cleanup_task' = [cleanup_task EXCEPT ![s].pc = "start"]
    /\ UNCHANGED <<_sessions, _session_lock, session, request, ledgerVars>>

\* _cleanup_session from the acquired lock on: whatever session is
\* registered under the id is popped, and when its server task is not done
\* the task is cancelled and awaited, the lock still held.
CleanupSession(s) ==
    LET id == session[s].session_id
        x == _sessions[id]
    IN IF x = NoSession
       THEN /\ cleanup_task' = [cleanup_task EXCEPT ![s].pc = "finished"]
            /\ _session_lock' = Released(Held)
            /\ UNCHANGED <<_sessions, session>>
       ELSE /\ _sessions' = [_sessions EXCEPT ![id] = NoSession]
            /\ IF ~Done(x)
               THEN /\ session' = [session EXCEPT ![x].server_task = "cancelling"]
                    /\ cleanup_task' = [cleanup_task EXCEPT
                                          ![s] = [pc |-> "awaiting", popped |-> x]]
                    /\ _session_lock' = Held
               ELSE /\ cleanup_task' = [cleanup_task EXCEPT
                                          ![s] = [pc |-> "finished", popped |-> x]]
                    /\ _session_lock' = Released(Held)
                    /\ UNCHANGED session

\* The first run of the task _cleanup_session(session_id).
_cleanup_session(s) ==
    /\ cleanup_task[s].pc = "start"
    /\ IF LockAvailable
       THEN CleanupSession(s)
       ELSE /\ cleanup_task' = [cleanup_task EXCEPT ![s].pc = "waiting"]
            /\ _session_lock' = Enqueued(<<"cleanup", s>>)
            /\ UNCHANGED <<_sessions, session>>
    /\ UNCHANGED <<request, ledgerVars>>

\* async with _session_lock, for a cleanup that had to wait.
cs_acquired(s) ==
    /\ cleanup_task[s].pc = "waiting"
    /\ Woken(<<"cleanup", s>>)
    /\ CleanupSession(s)
    /\ UNCHANGED <<request, ledgerVars>>

\* await session.server_task returns (CancelledError is passed over) and the
\* lock is released.
cs_awaited(s) ==
    /\ cleanup_task[s].pc = "awaiting"
    /\ Done(cleanup_task[s].popped)
    /\ cleanup_task' = [cleanup_task EXCEPT ![s].pc = "finished"]
    /\ _session_lock' = Released(_session_lock)
    /\ UNCHANGED <<_sessions, session, request, ledgerVars>>

McpNext ==
    \/ \E r \in Requests :
          \/ mcp_post_asgi(r)
          \/ get_or_create_session(r)
          \/ create_session(r)
    \/ \E s \in Requests :
          \/ server_task_ends(s)
          \/ server_task_cancelled(s)
          \/ cleanup(s)
          \/ _cleanup_session(s)
          \/ cs_acquired(s)
          \/ cs_awaited(s)

SpecMcp == Init /\ [][McpNext]_vars

\* The event loop runs every task it has scheduled and every callback it
\* has queued; connecting a transport returns; a cancelled task ends.  The
\* arrival of a request and the end of a server's run are not owed.
McpFairness ==
    /\ \A r \in Requests :
          /\ WF_vars(get_or_create_session(r))
          /\ WF_vars(create_session(r))
    /\ \A s \in Requests :
          /\ WF_vars(server_task_cancelled(s))
          /\ WF_vars(cleanup(s))
          /\ WF_vars(_cleanup_session(s))
          /\ WF_vars(cs_acquired(s))
          /\ WF_vars(cs_awaited(s))

SpecMcpLive == SpecMcp /\ McpFairness

\* A session whose server task is not done.
Live(s) == session[s].server_task \in {"running", "cancelling"}

\* The step in which get_or_create_session of request r consults the table.
Consults(r) ==
    /\ request[r].pc \in {"idle", "waiting"}
    /\ request'[r].pc \in {"handled", "connect"}

ExistingSessionReturned ==
    \A r \in Requests :
       Consults(r) =>
          LET s == _sessions[request'[r].session_id]
          IN /\ (s # NoSession /\ Live(s)) =>
                   /\ request'[r].pc = "handled"
                   /\ request'[r].session = s
                   /\ session' = session
                   /\ _sessions' = _sessions
             /\ request'[r].pc = "connect" =>
                   \/ request'[r].header = 0
                   \/ s = NoSession
                   \/ Done(s)

NewSessionOverNone ==
    \A r \in Requests :
       (request[r].pc = "connect" /\ request'[r].pc = "handled") =>
          /\ _sessions[request[r].session_id] = NoSession
          /\ _sessions'[request[r].session_id] = r
          /\ request'[r].session = r

OneSessionPerId ==
    /\ \A id \in SessionIds :
          _sessions[id] # NoSession => session[_sessions[id]].session_id = id
    /\ \A s, x \in Requests :
          (Live(s) /\ Live(x) /\ session[s].session_id = session[x].session_id)
             => s = x

\* C37: a POST whose Mcp-Session-Id names a registered session with a server
\* task that is not done is handled by that session, and the step starts no
\* server task and leaves the table alone; a transport is connected only for
\* an absent id, an id with no entry, or an entry whose task is done; the
\* new session is registered over no entry; and no two sessions with a
\* server task that is not done carry the same id.
SessionsPersist ==
    /\ [][ExistingSessionReturned /\ NewSessionOverNone]_vars
    /\ []OneSessionPerId

\* A second POST is handled by the session that an earlier POST created,
\* and another one replaced a finished session under its id.
SessionsPersistWitness ==
    \E r, q \in Requests :
       /\ request[r].pc = "handled"
       /\ request[r].session \notin {r, NoSession}
       /\ Live(request[r].session)
       /\ request[q].pc = "handled"
       /\ request[q].session = q
       /\ request[q].header \in ClientIds

\* C38: a cleanup task pops no session but the one whose server task ended,
\* and no server task is cancelled by the cleanup of another session.
CleanupRemovesOwnSession ==
    \A s \in Requests :
       /\ cleanup_task[s].popped \in {NoSession, s}
       /\ session[s].server_task # "cancelling"

Registered(s) ==
    /\ session[s].server_task # "none"
    /\ _sessions[session[s].session_id] = s

\* C39: a registered session whose server task is done is eventually not
\* registered.
FinishedSessionRemoved ==
    \A s \in Requests : (Registered(s) /\ Done(s)) ~> ~Registered(s)

\* One finished session was popped by its own cleanup, another was replaced
\* by a request before its cleanup ran.
FinishedSessionRemovedWitness ==
    \E s, x \in Requests :
       /\ cleanup_task[s].pc = "finished"
       /\ cleanup_task[s].popped = s
       /\ Done(x)
       /\ cleanup_task[x].pc \in {"callback", "start", "waiting"}
       /\ _sessions[session[x].session_id] \notin {x, NoSession}

====
